---- MODULE Spec2Model ----
(***************************************************************************)
(* Model of the cryptogram solver, src/src/services/cryptogram.server.ts.  *)
(*                                                                         *)
(* Characters are one-character strings.  A word, a ciphertext and a       *)
(* plaintext are sequences of characters.  A JavaScript Set or Map, which  *)
(* iterates in insertion order, is a sequence without duplicates (a Map: a *)
(* sequence of records or pairs whose first components are distinct).      *)
(***************************************************************************)
EXTENDS Integers, Sequences, FiniteSets, TLC

(***************************************************************************)
(* Bounds of the model.                                                    *)
(***************************************************************************)
\* Number of letters of the alphabet: the program's A-Z, scaled down to the
\* AlphabetSize most frequent English letters.
AlphabetSize == 6
\* maxSolutionCount ranges over 1..MaxSolutionCount.
MaxSolutionCount == 2
\* The clock (milliseconds since the call) ranges over 0..MaxClock.
MaxClock == 2
\* Random attempts of a fallback loop (the program's 1000, 500, 100 and 5).
MaxAttempts == 2
\* Letters of the alphabet where the pigeonhole loop is followed pass by pass.
PigeonholeSize == 3

(***************************************************************************)
(* Generic helpers for insertion-ordered collections.                      *)
(***************************************************************************)
Range(s) == {s[i] : i \in DOMAIN s}

Min(a, b) == IF a <= b THEN a ELSE b

\* The elements of s at the indices in I, in increasing index order.
AtIndices(s, I) ==
  [k \in 1..Cardinality(I) |->
     s[CHOOSE i \in I : Cardinality({j \in I : j < i}) = k - 1]]

\* s without its repeated elements: the first occurrence of each is kept
\* (what adding the elements of s to a Set, one after the other, leaves).
Uniq(s) == AtIndices(s, {i \in DOMAIN s : \A j \in 1..(i - 1) : s[j] # s[i]})

\* The elements of s that satisfy Test, in order (filter).
Filter(s, Test(_)) == SelectSeq(s, Test)

\* An array left as it is: `.reverse()` is not called.
NotReversed(s) == s

\* s reversed (Array.prototype.reverse).
Reverse(s) == [i \in 1..Len(s) |-> s[Len(s) + 1 - i]]

\* The lookup of key k in a Map m (a sequence of <<key, value>>).
Has(m, k) == \E i \in DOMAIN m : m[i][1] = k
Get(m, k) == m[CHOOSE i \in DOMAIN m : m[i][1] = k][2]

(***************************************************************************)
(* Letters.                                                                *)
(***************************************************************************)
AZ == <<"A", "B", "C", "D", "E", "F", "G", "H", "I", "J", "K", "L", "M",
        "N", "O", "P", "Q", "R", "S", "T", "U", "V", "W", "X", "Y", "Z">>

\* The position of a letter in A-Z: the order of sort() and localeCompare.
Code(c) == CHOOSE i \in DOMAIN AZ : AZ[i] = c

\* tryFrequencyAnalysis: "ETAOINSRHDLUCMFYWGPBVKXQJZ".
englishFrequency ==
  <<"E", "T", "A", "O", "I", "N", "S", "R", "H", "D", "L", "U", "C",
    "M", "F", "Y", "W", "G", "P", "B", "V", "K", "X", "Q", "J", "Z">>

\* The alphabet of every dictionary of the model.
Alphabet == {englishFrequency[i] : i \in 1..AlphabetSize}

\* The frequency string as the model sees it: its letters of the alphabet.
FrequencyOrder(str) == Filter(str, LAMBDA c : c \in Alphabet)

(***************************************************************************)
(* pattern.server.ts, words.server.ts, dictionary.server.ts                *)
(***************************************************************************)
\* computePattern: each position holds the index of the first occurrence of
\* its letter.
computePattern(word) ==
  [i \in 1..Len(word) |->
     CHOOSE j \in 1..i : word[j] = word[i] /\ \A k \in 1..(j - 1) : word[k] # word[i]]

\* parseWords: the maximal runs of alphabet characters of text, without
\* repetition, in the order of their first occurrence.
parseWords(text, alphabet) ==
  LET n == Len(text)
      starts == {i \in 1..n : text[i] \in alphabet
                              /\ (i = 1 \/ text[i - 1] \notin alphabet)}
      EndOf(i) == CHOOSE j \in i..n :
                    /\ \A k \in i..j : text[k] \in alphabet
                    /\ (j = n \/ text[j + 1] \notin alphabet)
      startSeq == AtIndices([i \in 1..n |-> i], starts)
  IN  Uniq([k \in DOMAIN startSeq |-> SubSeq(text, startSeq[k], EndOf(startSeq[k]))])

\* Dictionary.patternWords.get(pattern): the words of the dictionary with
\* this pattern, in dictionary order; <<>> stands for undefined.
patternWords(dictionary, pattern) ==
  LET ws == [i \in DOMAIN dictionary.entries |-> dictionary.entries[i][1]]
  IN  Filter(ws, LAMBDA w : computePattern(w) = pattern)

\* Dictionary.wordFrequencies
wordFrequenciesHas(dictionary, word) == Has(dictionary.entries, word)
wordFrequenciesGet(dictionary, word) == Get(dictionary.entries, word)

(***************************************************************************)
(* cryptogram.server.ts: the constraint search                             *)
(***************************************************************************)
\* zipWords: the pairs of letters at the same positions.
zipWords(word1, word2) == [i \in 1..Len(word1) |-> <<word1[i], word2[i]>>]

\* The invariant of zipWords: `Expected same length words`.
zipWordsOk(word1, word2) == Len(word1) = Len(word2)

\* findWordCandidates: a Map word -> candidate words, in the order of words.
findWordCandidates(words, dictionary) ==
  [i \in DOMAIN words |->
     [word |-> words[i],
      candidateWords |-> patternWords(dictionary, computePattern(words[i]))]]

intersection(set1, set2) == {value \in set1 : value \in set2}

\* computeLetterCandidates, first half: the letters a word's candidates allow
\* for letter at the positions where the word has it; undefined (no entry in
\* the grouped map) is the whole alphabet.
wordLetterCandidates(entry, letter, alphabet) ==
  LET word == entry.word
      pairs == UNION {Range(zipWords(word, entry.candidateWords[c])) :
                        c \in DOMAIN entry.candidateWords}
      grouped == {p[2] : p \in {q \in pairs : q[1] = letter}}
  IN  IF \E p \in pairs : p[1] = letter THEN grouped ELSE alphabet

RECURSIVE intersectAll(_, _, _, _)
intersectAll(wordCandidates, letter, alphabet, i) ==
  IF i > Len(wordCandidates) THEN alphabet
  ELSE LET rest == intersectAll(wordCandidates, letter, alphabet, i + 1)
       IN  intersection(rest, wordLetterCandidates(wordCandidates[i], letter, alphabet))

initialLetterCandidates(wordCandidates, dictionary) ==
  [letter \in dictionary.alphabet |->
     intersectAll(wordCandidates, letter, dictionary.alphabet, 1)]

\* The pigeonholed candidates without `currentCandidateLetters.size <
\* letters.size`: only the groups that are exactly full claim their letters.
pigeonholedWhenFull(letterCandidates, letter) ==
  UNION {currentCandidateLetters \in Range(letterCandidates) :
           LET letters == {l \in DOMAIN letterCandidates :
                             letterCandidates[l] = currentCandidateLetters}
           IN  /\ Cardinality(currentCandidateLetters) = Cardinality(letters)
               /\ letter \notin letters}

\* One pass of the do-while of computeLetterCandidates: the letters grouped by
\* their candidate sets, then the pigeonholed candidates subtracted.
pigeonholed(letterCandidates, letter) ==
  UNION {currentCandidateLetters \in Range(letterCandidates) :
           LET letters == {l \in DOMAIN letterCandidates :
                             letterCandidates[l] = currentCandidateLetters}
           IN  \/ /\ Cardinality(currentCandidateLetters) = Cardinality(letters)
                  /\ letter \notin letters
               \/ Cardinality(currentCandidateLetters) < Cardinality(letters)}

\* A pass that stops at its first deletion: the first letter that has a
\* pigeonholed candidate loses the first of them, and nothing else changes.
pigeonholePassOneDelete(letterCandidates) ==
  LET deleted(letter) == letterCandidates[letter] \cap pigeonholed(letterCandidates, letter)
      changing == {letter \in DOMAIN letterCandidates : deleted(letter) # {}}
      firstLetter == CHOOSE letter \in changing : \A l \in changing : Code(letter) <= Code(l)
      candidate == CHOOSE c \in deleted(firstLetter) :
                     \A d \in deleted(firstLetter) : Code(c) <= Code(d)
  IN  IF changing = {} THEN letterCandidates
      ELSE [letterCandidates EXCEPT ![firstLetter] = @ \ {candidate}]

pigeonholePass(letterCandidates) ==
  [letter \in DOMAIN letterCandidates |->
     letterCandidates[letter] \ pigeonholed(letterCandidates, letter)]

\* The loop body run once, without the `while (candidatesChanged)`.
pigeonholeOnce(letterCandidates) == pigeonholePass(letterCandidates)

RECURSIVE pigeonholeLoop(_)
pigeonholeLoop(letterCandidates) ==
  LET next == pigeonholePass(letterCandidates)
      candidatesChanged == next # letterCandidates
  IN  IF candidatesChanged THEN pigeonholeLoop(next) ELSE next

computeLetterCandidates(wordCandidates, dictionary) ==
  pigeonholeLoop(initialLetterCandidates(wordCandidates, dictionary))

\* pruneWordCandidates with `some` for `all` at line 187: a candidate is
\* kept when one of its letters is a candidate of the letter it stands for.
pruneWithSome(wordCandidates, dictionary) ==
  LET letterCandidates == computeLetterCandidates(wordCandidates, dictionary)
      Keeps(word, candidateWord) ==
        \E i \in 1..Len(word) : candidateWord[i] \in letterCandidates[word[i]]
      prunedWordCandidates ==
        [i \in DOMAIN wordCandidates |->
           [word |-> wordCandidates[i].word,
            candidateWords |->
              Filter(wordCandidates[i].candidateWords,
                     LAMBDA c : Keeps(wordCandidates[i].word, c))]]
  IN  IF /\ Len(prunedWordCandidates) > 0
         /\ \A i \in DOMAIN prunedWordCandidates :
              Len(prunedWordCandidates[i].candidateWords) > 0
      THEN prunedWordCandidates
      ELSE <<>>

\* pruneWordCandidates; <<>> stands for undefined.
pruneWordCandidates(wordCandidates, dictionary) ==
  LET letterCandidates == computeLetterCandidates(wordCandidates, dictionary)
      Keeps(word, candidateWord) ==
        \A i \in 1..Len(word) : candidateWord[i] \in letterCandidates[word[i]]
      prunedWordCandidates ==
        [i \in DOMAIN wordCandidates |->
           [word |-> wordCandidates[i].word,
            candidateWords |->
              Filter(wordCandidates[i].candidateWords,
                     LAMBDA c : Keeps(wordCandidates[i].word, c))]]
  IN  IF /\ Len(prunedWordCandidates) > 0
         /\ \A i \in DOMAIN prunedWordCandidates :
              Len(prunedWordCandidates[i].candidateWords) > 0
      THEN prunedWordCandidates
      ELSE <<>>


\* The partition without `remainingWordCandidates.get(word)!.delete(candidateWord)`:
\* no candidate is removed, and the last child is the parent itself.
partitionWithoutDelete(wordCandidates) ==
  LET several == {i \in DOMAIN wordCandidates :
                    Len(wordCandidates[i].candidateWords) # 1}
      order == AtIndices([i \in DOMAIN wordCandidates |-> i], several)
  IN  [k \in DOMAIN order |->
         [wordCandidates EXCEPT
            ![order[k]].candidateWords = <<Head(wordCandidates[order[k]].candidateWords)>>]]
        \o <<wordCandidates>>

\* The partition with `newWordCandidates.set(word, ...)` on the wrong key:
\* the first candidate of a word becomes the one candidate of the last word.
partitionSettingLastWord(wordCandidates) ==
  LET several == {i \in DOMAIN wordCandidates :
                    Len(wordCandidates[i].candidateWords) # 1}
      remaining(upTo) ==
        [j \in DOMAIN wordCandidates |->
           [word |-> wordCandidates[j].word,
            candidateWords |->
              IF j \in several /\ j <= upTo
              THEN Tail(wordCandidates[j].candidateWords)
              ELSE wordCandidates[j].candidateWords]]
      order == AtIndices([i \in DOMAIN wordCandidates |-> i], several)
  IN  [k \in DOMAIN order |->
         [remaining(order[k]) EXCEPT
            ![Len(wordCandidates)].candidateWords =
               <<Head(wordCandidates[order[k]].candidateWords)>>]]
        \o <<remaining(Len(wordCandidates))>>

\* The partition without `if (candidateWords.size === 1) continue`: a word
\* with one candidate gets a child too and loses its candidate.
partitionWithoutSkip(wordCandidates) ==
  LET remaining(upTo) ==
        [j \in DOMAIN wordCandidates |->
           [word |-> wordCandidates[j].word,
            candidateWords |->
              IF j <= upTo
              THEN Tail(wordCandidates[j].candidateWords)
              ELSE wordCandidates[j].candidateWords]]
  IN  [k \in DOMAIN wordCandidates |->
         [remaining(k) EXCEPT
            ![k].candidateWords = <<Head(wordCandidates[k].candidateWords)>>]]
        \o <<remaining(Len(wordCandidates))>>

\* The partition without `partitionedWordCandidates.push(remainingWordCandidates)`:
\* the children that fix a word, and no child for what remains.
partitionWithoutRemaining(wordCandidates) ==
  LET several == {i \in DOMAIN wordCandidates :
                    Len(wordCandidates[i].candidateWords) # 1}
      remaining(upTo) ==
        [j \in DOMAIN wordCandidates |->
           [word |-> wordCandidates[j].word,
            candidateWords |->
              IF j \in several /\ j <= upTo
              THEN Tail(wordCandidates[j].candidateWords)
              ELSE wordCandidates[j].candidateWords]]
      order == AtIndices([i \in DOMAIN wordCandidates |-> i], several)
  IN  [k \in DOMAIN order |->
         [remaining(order[k]) EXCEPT
            ![order[k]].candidateWords = <<Head(wordCandidates[order[k]].candidateWords)>>]]

\* partitionWordCandidates: one child per word with several candidates, the
\* word fixed to its first candidate, then the remaining word candidates.
\* remainingWordCandidates loses the first candidate of each such word as the
\* loop reaches it, and each child is a copy of it at that moment.
partitionWordCandidates(wordCandidates) ==
  LET several == {i \in DOMAIN wordCandidates :
                    Len(wordCandidates[i].candidateWords) # 1}
      \* remainingWordCandidates after the loop has passed the words 1..upTo
      remaining(upTo) ==
        [j \in DOMAIN wordCandidates |->
           [word |-> wordCandidates[j].word,
            candidateWords |->
              IF j \in several /\ j <= upTo
              THEN Tail(wordCandidates[j].candidateWords)
              ELSE wordCandidates[j].candidateWords]]
      newWordCandidates(i) ==
        [remaining(i) EXCEPT
           ![i].candidateWords = <<Head(wordCandidates[i].candidateWords)>>]
      order == AtIndices([i \in DOMAIN wordCandidates |-> i], several)
  IN  [k \in DOMAIN order |-> newWordCandidates(order[k])]
        \o <<remaining(Len(wordCandidates))>>

\* The cipher taken from the first word alone: the letters of the other
\* words get no entry.
computeCipherOfFirstWord(wordCandidates) ==
  LET pairs == zipWords(wordCandidates[1][1], wordCandidates[1][2])
      letters == Uniq([i \in DOMAIN pairs |-> pairs[i][1]])
      candidateLetters(letter) == {p[2] : p \in {q \in Range(pairs) : q[1] = letter}}
      cipher == [i \in DOMAIN letters |->
                   <<letters[i], CHOOSE c \in candidateLetters(letters[i]) : TRUE>>]
  IN  IF \E i \in DOMAIN letters : Cardinality(candidateLetters(letters[i])) # 1
      THEN [threw |-> "Expected once candidate per letter", cipher |-> <<>>]
      ELSE IF Cardinality({cipher[i][2] : i \in DOMAIN cipher}) # Len(cipher)
      THEN [threw |-> "Expected plaintext letters to be unique", cipher |-> <<>>]
      ELSE [threw |-> "", cipher |-> cipher]

\* computeCipher: the letters grouped by ciphertext letter, in the order of
\* first appearance; each must have one candidate, and the candidates must
\* be distinct.  threw is the message of the failed invariant, or "".
computeCipher(wordCandidates) ==
  LET RECURSIVE flat(_)
      flat(i) == IF i > Len(wordCandidates) THEN <<>>
                 ELSE zipWords(wordCandidates[i][1], wordCandidates[i][2]) \o flat(i + 1)
      pairs == flat(1)
      letters == Uniq([i \in DOMAIN pairs |-> pairs[i][1]])
      candidateLetters(letter) == {p[2] : p \in {q \in Range(pairs) : q[1] = letter}}
      cipher == [i \in DOMAIN letters |->
                   <<letters[i], CHOOSE c \in candidateLetters(letters[i]) : TRUE>>]
  IN  IF \E i \in DOMAIN letters : Cardinality(candidateLetters(letters[i])) # 1
      THEN [threw |-> "Expected once candidate per letter", cipher |-> <<>>]
      ELSE IF Cardinality({cipher[i][2] : i \in DOMAIN cipher}) # Len(cipher)
      THEN [threw |-> "Expected plaintext letters to be unique", cipher |-> <<>>]
      ELSE [threw |-> "", cipher |-> cipher]

\* The decryption without `?? letter`: a character the cipher has no entry
\* for is left out of the plaintext.
decryptWithoutCopy(text, cipher) ==
  LET mapped == Filter(text, LAMBDA letter : Has(cipher, letter))
  IN  [i \in DOMAIN mapped |-> Get(cipher, mapped[i])]

\* decryptCiphertext: cipher.get(letter) ?? letter, at every position.
decryptCiphertext(text, cipher) ==
  [i \in DOMAIN text |-> IF Has(cipher, text[i]) THEN Get(cipher, text[i]) ELSE text[i]]

\* The sum of the frequencies of a sequence of words (0 for an unknown word).
RECURSIVE frequencySumOf(_, _, _)
frequencySumOf(words, dictionary, i) ==
  IF i > Len(words) THEN 0
  ELSE (IF wordFrequenciesHas(dictionary, words[i])
        THEN wordFrequenciesGet(dictionary, words[i]) ELSE 0)
       + frequencySumOf(words, dictionary, i + 1)

\* computeMeanFrequency: the quotient frequencySum / words.size, kept as the
\* pair of its terms.
computeMeanFrequency(plaintext, dictionary) ==
  LET words == parseWords(plaintext, dictionary.alphabet)
  IN  [frequencySum |-> frequencySumOf(words, dictionary, 1), size |-> Len(words)]

\* meanFrequency1 < meanFrequency2, for quotients with positive size.
MeanLess(m1, m2) == m1.frequencySum * m2.size < m2.frequencySum * m1.size

\* solutions.set(plaintext, solution): a present key keeps its place.
SetSolution(sols, plaintext, meanFrequency, cipher) ==
  LET entry == [plaintext |-> plaintext, meanFrequency |-> meanFrequency, cipher |-> cipher]
  IN  IF \E i \in DOMAIN sols : sols[i].plaintext = plaintext
      THEN [i \in DOMAIN sols |-> IF sols[i].plaintext = plaintext THEN entry ELSE sols[i]]
      ELSE Append(sols, entry)

HasSolution(sols, plaintext) == \E i \in DOMAIN sols : sols[i].plaintext = plaintext

\* [...solutions].sort((s1, s2) => s2.meanFrequency - s1.meanFrequency): a
\* stable sort, the higher mean frequency first.
sortSolutions(sols) ==
  LET Before(i, j) == \/ MeanLess(sols[j].meanFrequency, sols[i].meanFrequency)
                      \/ /\ ~MeanLess(sols[i].meanFrequency, sols[j].meanFrequency)
                         /\ i < j
      rank(i) == 1 + Cardinality({j \in DOMAIN sols : Before(j, i)})
  IN  [k \in DOMAIN sols |-> sols[CHOOSE i \in DOMAIN sols : rank(i) = k]]

\* [...cipher].sort(([letter1], [letter2]) => letter1.localeCompare(letter2))
sortCipher(cipher) ==
  LET rank(i) == 1 + Cardinality({j \in DOMAIN cipher : Code(cipher[j][1]) < Code(cipher[i][1])})
  IN  [k \in DOMAIN cipher |-> cipher[CHOOSE i \in DOMAIN cipher : rank(i) = k]]

\* The value solveCryptogram returns after the search (lines 133-150).
rankedSolutions(sols) ==
  LET sorted == sortSolutions(sols)
  IN  [k \in DOMAIN sorted |->
         [plaintext |-> sorted[k].plaintext, cipher |-> sortCipher(sorted[k].cipher)]]

\* The value the fallbacks return: the solutions in insertion order, the
\* ciphers as they are.
convertedSolutions(sols) ==
  [k \in DOMAIN sols |-> [plaintext |-> sols[k].plaintext, cipher |-> sols[k].cipher]]


(***************************************************************************)
(* cryptogram.server.ts: the fallbacks                                     *)
(***************************************************************************)
\* Number.POSITIVE_INFINITY: above every reading of the clock.
Infinity == MaxClock + 1

\* timeoutMs - elapsed
Remaining(timeout, elapsed) == IF timeout = Infinity THEN Infinity ELSE timeout - elapsed

\* The letters of the ciphertext (uniqueLetters of the brute force).
uniqueLettersOf(text, alphabet) ==
  Uniq(Filter(text, LAMBDA char : char \in alphabet))

\* Math.min(1000, Math.pow(26, uniqueLetters.size))
permutationAttempts(size) == Min(MaxAttempts, AlphabetSize ^ size)

\* tryCelebrityQuoteAnalysis: "ETAOINHSRDLUCMFWYGPBVKJXQZ".
celebrityFrequency ==
  <<"E", "T", "A", "O", "I", "N", "H", "S", "R", "D", "L", "U", "C",
    "M", "F", "W", "Y", "G", "P", "B", "V", "K", "J", "X", "Q", "Z">>

\* The count without the test `dictionary.wordFrequencies.has(word)`: every
\* word is counted.
validWordCountWithoutHas(words, dictionary) == Len(words)

\* The number of words of plaintext that wordFrequencies has.
validWordCount(words, dictionary) ==
  Cardinality({i \in DOMAIN words : wordFrequenciesHas(dictionary, words[i])})

\* validWordCount > 0 && validWordCount / words.size >= tenths / 10
significantPortion(plaintext, dictionary, tenths) ==
  LET words == parseWords(plaintext, dictionary.alphabet)
      valid == validWordCount(words, dictionary)
  IN  valid > 0 /\ valid * 10 >= tenths * Len(words)

\* One attempt of a fallback: the cipher is applied and the plaintext is
\* taken for a solution if enough of its words are valid.
tryCipher(sols, text, dictionary, cipher, tenths) ==
  LET plaintext == decryptCiphertext(text, cipher)
  IN  IF significantPortion(plaintext, dictionary, tenths)
      THEN SetSolution(sols, plaintext, computeMeanFrequency(plaintext, dictionary), cipher)
      ELSE sols

\* The ciphers the brute force may draw: each letter is given a random
\* letter that no earlier letter has.
randomCiphers(uniqueLetters) ==
  {[i \in DOMAIN uniqueLetters |-> <<uniqueLetters[i], f[i]>>] :
     f \in {g \in [DOMAIN uniqueLetters -> Alphabet] :
              \A i, j \in DOMAIN uniqueLetters : i # j => g[i] # g[j]}}

\* sortedCipherLetters: the letters of the ciphertext, the most frequent
\* first, letters of equal count in the order of their first occurrence.
sortedCipherLetters(text, alphabet) ==
  LET letters == uniqueLettersOf(text, alphabet)
      count(l) == Cardinality({i \in DOMAIN text : text[i] = l})
      rank(i) == 1 + Cardinality({j \in DOMAIN letters :
                    \/ count(letters[j]) > count(letters[i])
                    \/ count(letters[j]) = count(letters[i]) /\ j < i})
  IN  [k \in DOMAIN letters |-> letters[CHOOSE i \in DOMAIN letters : rank(i) = k]]

\* frequencyCipher and standardCipher: the i-th most frequent letter of the
\* ciphertext is given the i-th letter of the frequency string, the string
\* used again from its start when the ciphertext has more letters.
frequencyCipherOf(text, alphabet, str) ==
  LET sorted == sortedCipherLetters(text, alphabet)
      order == FrequencyOrder(str)
  IN  [i \in DOMAIN sorted |-> <<sorted[i], order[((i - 1) % Len(order)) + 1]>>]

\* The values of the entries i1 and i2 of a cipher swapped.
swapped(cipher, i1, i2) ==
  [cipher EXCEPT ![i1] = <<cipher[i1][1], cipher[i2][2]>>,
                 ![i2] = <<cipher[i2][1], cipher[i1][2]>>]

\* The ciphers that swapCount random swaps may make of a cipher (a swap of
\* an entry with itself changes nothing).
RECURSIVE randomSwaps(_, _)
randomSwaps(cipher, swapCount) ==
  IF swapCount = 0 \/ Len(cipher) < 2 THEN {cipher}
  ELSE LET before == randomSwaps(cipher, swapCount - 1)
       IN  before \cup {swapped(c, ix[1], ix[2]) :
                          c \in before, ix \in (DOMAIN cipher) \X (DOMAIN cipher)}

\* Math.min(500, timeoutMs / 10) and Math.min(100, timeoutMs / 10), as the
\* number of passes of a loop `for (i = 0; i < attempts; i++)`.
attemptsWithin(timeout) ==
  IF timeout = Infinity THEN MaxAttempts
  ELSE IF timeout <= 0 THEN 0
  ELSE Min(MaxAttempts, (timeout + 9) \div 10)

\* The common words of tryCelebrityQuoteAnalysis that the alphabet can spell.
commonTwoLetterWords ==
  Filter(<< <<"T", "O">>, <<"O", "F">>, <<"I", "N">>, <<"I", "S">>, <<"I", "T">>,
            <<"B", "E">>, <<"A", "S">>, <<"A", "T">>, <<"S", "O">>, <<"W", "E">>,
            <<"H", "E">>, <<"B", "Y">>, <<"O", "R">>, <<"O", "N">>, <<"D", "O">>,
            <<"I", "F">>, <<"M", "E">>, <<"M", "Y">>, <<"U", "P">>, <<"A", "N">>,
            <<"G", "O">>, <<"N", "O">>, <<"U", "S">>, <<"A", "M">> >>,
         LAMBDA w : Range(w) \subseteq Alphabet)

commonThreeLetterWords ==
  Filter(<< <<"T", "H", "E">>, <<"A", "N", "D">>, <<"F", "O", "R">>, <<"A", "R", "E">>,
            <<"B", "U", "T">>, <<"N", "O", "T">>, <<"Y", "O", "U">>, <<"A", "L", "L">>,
            <<"A", "N", "Y">>, <<"C", "A", "N">>, <<"H", "A", "D">>, <<"H", "E", "R">>,
            <<"W", "A", "S">>, <<"O", "N", "E">>, <<"O", "U", "R">>, <<"O", "U", "T">>,
            <<"D", "A", "Y">>, <<"G", "E", "T">>, <<"H", "A", "S">>, <<"H", "I", "M">>,
            <<"H", "O", "W">>, <<"M", "A", "N">>, <<"N", "E", "W">>, <<"N", "O", "W">>,
            <<"O", "L", "D">>, <<"S", "E", "E">>, <<"T", "W", "O">>, <<"W", "A", "Y">>,
            <<"W", "H", "O">>, <<"B", "O", "Y">>, <<"D", "I", "D">>, <<"I", "T", "S">>,
            <<"L", "E", "T">>, <<"P", "U", "T">>, <<"S", "A", "Y">>, <<"S", "H", "E">>,
            <<"T", "O", "O">>, <<"U", "S", "E">> >>,
         LAMBDA w : Range(w) \subseteq Alphabet)

\* specializedCipher.set(sourceLetter, targetLetter)
setLetter(cipher, sourceLetter, targetLetter) ==
  IF Has(cipher, sourceLetter)
  THEN [i \in DOMAIN cipher |->
          IF cipher[i][1] = sourceLetter THEN <<sourceLetter, targetLetter>> ELSE cipher[i]]
  ELSE Append(cipher, <<sourceLetter, targetLetter>>)

\* The letters of word mapped to the letters of targetWord, one after the other.
RECURSIVE mapWord(_, _, _, _)
mapWord(cipher, word, targetWord, i) ==
  IF i > Len(word) THEN cipher
  ELSE mapWord(setLetter(cipher, word[i], targetWord[i]), word, targetWord, i + 1)

\* The ciphers that mapping each word of words, in order, to a random word of
\* targets may make of the ciphers; without a target the cipher is left alone.
RECURSIVE mapWords(_, _, _, _)
mapWords(ciphers, words, targets, i) ==
  IF i > Len(words) \/ Len(targets) = 0 THEN ciphers
  ELSE mapWords({mapWord(c, words[i], targets[t], 1) : c \in ciphers, t \in DOMAIN targets},
                words, targets, i + 1)

\* The specialized ciphers one attempt of tryCelebrityQuoteAnalysis may build
\* from the standard cipher (lines 743-795).
specializedCiphers(text, alphabet) ==
  LET words == parseWords(text, alphabet)
      ofLength(n) == Filter(words, LAMBDA w : Len(w) = n)
      standardCipher == frequencyCipherOf(text, alphabet, celebrityFrequency)
      one == mapWords({standardCipher}, ofLength(1), << <<"I">>, <<"A">> >>, 1)
      two == mapWords(one, ofLength(2), commonTwoLetterWords, 1)
  IN  mapWords(two, ofLength(3), commonThreeLetterWords, 1)

\* The check of lines 797-807: no two letters have the same target.
validCipher(cipher) ==
  \A i, j \in DOMAIN cipher : i # j => cipher[i][2] # cipher[j][2]

(***************************************************************************)
(* The Sets of the call as objects.  A Set is a place in a sequence of     *)
(* contents; a Map word -> Set is a sequence of [word, set], set being the *)
(* place of the Set.  Two Maps share a Set if they hold the same place.    *)
(***************************************************************************)
\* A Set that is found where one is created: a Set with the content, if
\* there is one already, is returned for the new one.
NewSetShared(sets, content) ==
  IF \E id \in DOMAIN sets : sets[id] = content
  THEN [sets |-> sets, id |-> CHOOSE id \in DOMAIN sets : sets[id] = content]
  ELSE [sets |-> Append(sets, content), id |-> Len(sets) + 1]

\* new Set(...), reduce(toSet()): a new Set with the given content.
NewSet(sets, content) ==
  [sets |-> Append(sets, content), id |-> Len(sets) + 1]

\* The Map as a value: every word with the content of its Set.
View(sets, map) ==
  [i \in DOMAIN map |-> [word |-> map[i].word, candidateWords |-> sets[map[i].set]]]

\* The Map itself for its copy: the Sets are shared, not copied.
sharedSets(sets, map) == [sets |-> sets, map |-> map]

\* map(([word, wordCandidates]) => [word, new Set(wordCandidates)]),
\* reduce(toMap()): a new Map with a copy of every Set (lines 339-343 and
\* 352-356).
RECURSIVE copiedFrom(_, _, _, _)
copiedFrom(sets, map, i, copied) ==
  IF i > Len(map) THEN [sets |-> sets, map |-> copied]
  ELSE LET new == NewSet(sets, sets[map[i].set])
       IN  copiedFrom(new.sets, map, i + 1,
                      Append(copied, [word |-> map[i].word, set |-> new.id]))

copiedSets(sets, map) == copiedFrom(sets, map, 1, <<>>)

\* The letters of the alphabet in the order the Map of line 250 has them.
lettersOf(alphabet) == AtIndices(AZ, {i \in DOMAIN AZ : AZ[i] \in alphabet})

\* computeLetterCandidates, lines 238-267: a new Set for every letter, with
\* the intersection of what the words allow for it.
RECURSIVE newLetterCandidates(_, _, _, _, _)
newLetterCandidates(letterSets, initial, letters, i, ids) ==
  IF i > Len(letters) THEN [letterSets |-> letterSets, ids |-> ids]
  ELSE LET new == NewSet(letterSets, initial[letters[i]])
       IN  newLetterCandidates(new.sets, initial, letters, i + 1,
                               Append(ids, new.id))

\* Lines 290-304: letter after letter, the candidates pigeonholed in the
\* grouping of lines 278-285 are deleted from the Set of the letter.
RECURSIVE deletePigeonholed(_, _, _, _, _)
deletePigeonholed(letterSets, ids, letters, grouped, i) ==
  IF i > Len(letters) THEN letterSets
  ELSE deletePigeonholed(
         [letterSets EXCEPT ![ids[i]] = @ \ pigeonholed(grouped, letters[i])],
         ids, letters, grouped, i + 1)

\* The do-while of lines 269-305 on the Sets of the letters.
RECURSIVE pigeonholeSets(_, _, _)
pigeonholeSets(letterSets, ids, letters) ==
  LET grouped == [letter \in Range(letters) |->
                    letterSets[ids[CHOOSE i \in DOMAIN letters : letters[i] = letter]]]
      next == deletePigeonholed(letterSets, ids, letters, grouped, 1)
      candidatesChanged == next # letterSets
  IN  IF candidatesChanged THEN pigeonholeSets(next, ids, letters) ELSE next

\* pruneWordCandidates, lines 178-196: a new Set for every word, with the
\* candidates that the letter candidates allow.
RECURSIVE filteredSets(_, _, _, _, _)
filteredSets(wordSets, map, letterCandidates, i, filtered) ==
  IF i > Len(map) THEN [sets |-> wordSets, map |-> filtered]
  ELSE LET word == map[i].word
           Allowed(candidateWord) ==
             \A k \in 1..Len(word) : candidateWord[k] \in letterCandidates[word[k]]
           new == NewSet(wordSets, SelectSeq(wordSets[map[i].set], Allowed))
       IN  filteredSets(new.sets, map, letterCandidates, i + 1,
                        Append(filtered, [word |-> word, set |-> new.id]))

\* pruneWordCandidates on the Sets: the Sets of the words and of the
\* alphabet after the call, and the Map it returns, <<>> for undefined.  The
\* Sets of the letter candidates are not reachable after the call; the Sets
\* of the dictionary stay at their places.
prunedSets(wordSets, letterSets, map, dictionary) ==
  LET letters == lettersOf(dictionary.alphabet)
      initial == initialLetterCandidates(View(wordSets, map), dictionary)
      created == newLetterCandidates(letterSets, initial, letters, 1, <<>>)
      closed == pigeonholeSets(created.letterSets, created.ids, letters)
      letterCandidates ==
        [letter \in Range(letters) |->
           closed[created.ids[CHOOSE i \in DOMAIN letters : letters[i] = letter]]]
      filtered == filteredSets(wordSets, map, letterCandidates, 1, <<>>)
      feasible == /\ Len(filtered.map) > 0
                  /\ \A i \in DOMAIN filtered.map :
                       Len(filtered.sets[filtered.map[i].set]) > 0
  IN  [wordSets |-> filtered.sets,
       letterSets |-> SubSeq(closed, 1, Len(letterSets)),
       map |-> IF feasible THEN filtered.map ELSE <<>>]

\* The patterns of the words of the dictionary, in the order of the words.
patternsOf(dictionary) ==
  Uniq([i \in DOMAIN dictionary.entries |-> computePattern(dictionary.entries[i][1])])

\* The Sets of dictionary.patternWords: one for every pattern.
patternWordSets(dictionary) ==
  [p \in DOMAIN patternsOf(dictionary) |->
     patternWords(dictionary, patternsOf(dictionary)[p])]

\* findWordCandidates on the Sets: every word with the Set the dictionary
\* has for its pattern, itself, or a new empty Set (line 163).
RECURSIVE foundSets(_, _, _, _, _)
foundSets(wordSets, words, dictionary, i, found) ==
  IF i > Len(words) THEN [sets |-> wordSets, map |-> found]
  ELSE LET patterns == patternsOf(dictionary)
           pattern == computePattern(words[i])
           known == \E p \in DOMAIN patterns : patterns[p] = pattern
           new == NewSet(wordSets, <<>>)
           set == IF known
                  THEN CHOOSE p \in DOMAIN patterns : patterns[p] = pattern
                  ELSE new.id
       IN  foundSets(IF known THEN wordSets ELSE new.sets, words, dictionary, i + 1,
                     Append(found, [word |-> words[i], set |-> set]))

(***************************************************************************)
(* The inputs of the model.                                                *)
(***************************************************************************)
Timeouts == (0..(MaxClock - 1)) \cup {Infinity}

\* Two- and three-letter words that share letters; the most frequent word
\* of a pattern is not the first.
manyWords ==
  [alphabet |-> Alphabet,
   entries |-> << <<<<"I", "N">>, 7>>, <<<<"A", "T">>, 5>>, <<<<"A", "N">>, 6>>,
                  <<<<"I", "T">>, 7>>, <<<<"O", "N">>, 8>>, <<<<"N", "O">>, 4>>,
                  <<<<"T", "O">>, 9>>, <<<<"T", "O", "O">>, 2>>,
                  <<<<"T", "E", "N">>, 3>>, <<<<"N", "E", "T">>, 1>>,
                  <<<<"T", "O", "T">>, 1>>, <<<<"N", "O", "O", "N">>, 10>>,
                  <<<<"T", "O", "O", "T">>, 3>>, <<<<"A", "N", "N", "A">>, 3>> >>]

fewWords ==
  [alphabet |-> Alphabet,
   entries |-> << <<<<"N", "O">>, 4>>, <<<<"I", "T">>, 6>>, <<<<"T", "O", "O">>, 2>>,
                  <<<<"E", "T", "A">>, 1>> >>]

noWords == [alphabet |-> Alphabet, entries |-> <<>>]

\* The calls of the model: <<ciphertext, dictionary>>.
Inputs ==
  ({ <<"A", "E", "E", "A">>,
     <<"A", "E", "I">>,
     <<"!", " ">>,
     <<"A", "E", " ", "A", "I">>,
     <<"A", "E", " ", "E", "A">>,
     <<"I", "E", ",", " ", "A", "E", "!">>,
     <<"A", "E", "I", " ", "I", "E", "A">>,
     <<"A", "E", " ", "A", "E", "E", " ", "A", "E">>,
     <<"A", "E", "E", "A", " ", "A", "E">>,
     <<"A", "E", " ", "E", "A", " ", "I", "A", " ", "I", "A", "A">>,
     <<"A", "E", "I", " ", "A", "E">> } \X {manyWords})
  \cup
  ({ <<"A", "E", "I">>,
     <<"A", "E", " ", "A", "E", "E", " ", "A", "E">>,
     <<"A", "E", " ", "A", "I", " ", "I", "E", "E">>,
     <<"A", "E", "E", "A", " ", "A", "E">>,
     <<"A", "E", "I", " ", "A", "E">> } \X {fewWords})
  \cup
  ({ <<"A", "E", "E", "A">>,
     <<"A", "E", " ", "A", "I">> } \X {noWords})

(***************************************************************************)
(* The state of a call of solveCryptogram.                                 *)
(***************************************************************************)
VARIABLES
  ciphertext,           \* the arguments of the call
  dictionary,
  maxSolutionCount,
  timeoutMs,
  pc,                   \* where the call is
  clock,                \* Date.now() - startTimeMs at the latest reading
  wordCandidatesStack,  \* the last element is the top
  solutions,            \* Map plaintext -> {meanFrequency, cipher}
  result,               \* the returned Map plaintext -> cipher
  error,                \* the message of the invariant that threw, or ""
  source,               \* the path that returned the result
  fallback,             \* the locals of the running fallback function
  call,                 \* 1 for the first call, 2 for a call made after it
  first,                \* the arguments and the outcome of the first call
  pigeonhole,           \* the locals of computeLetterCandidates in its do-while
  heap                  \* the Sets of the call as objects, and the Maps of them

vars == <<ciphertext, dictionary, maxSolutionCount, timeoutMs, pc, clock,
          wordCandidatesStack, solutions, result, error, source, fallback,
          call, first, pigeonhole, heap>>

args == <<ciphertext, dictionary, maxSolutionCount, timeoutMs>>

\* What no step of a call changes.
outside == <<args, call, first, pigeonhole, heap>>

\* What Date.now() - startTimeMs may read after it read c.  With an infinite
\* timeout no test depends on the reading, and the clock is left alone.
Readings(c) == IF timeoutMs = Infinity THEN {c} ELSE {c, Min(c + 1, MaxClock)}

\* The locals of a fallback function: its own startTimeMs and timeoutMs, the
\* loop counter, and for the celebrity analysis the position in baseCiphers,
\* the number of specialized ciphers and the base cipher being varied.
NoFallback == [startTimeMs |-> 0, timeoutMs |-> 0, i |-> 0, attempts |-> 0,
               base |-> 0, bases |-> 0, baseCipher |-> <<>>]

NoCall == [maxSolutionCount |-> 0, timeoutMs |-> 0, result |-> <<>>, error |-> ""]

\* The locals of computeLetterCandidates when its do-while is not followed.
NoPigeonhole == [wordCandidates |-> <<>>, letterCandidates |-> <<>>, iterations |-> 0]

\* The Sets when they are not followed as objects: the stack of Maps, and
\* the locals of partitionWordCandidates (its argument, the Map
\* remainingWordCandidates, the place of its loop and the array
\* partitionedWordCandidates).
NoHeap == [wordSets |-> <<>>, letterSets |-> <<>>, stack |-> <<>>,
           input |-> <<>>, remaining |-> <<>>, at |-> 0, partitioned |-> <<>>]

\* A call of solveCryptogram with one of the inputs and one of the counts
\* for maxSolutionCount, before its first step.
InitFor(inputs, counts) ==
  /\ \E input \in inputs : ciphertext = input[1] /\ dictionary = input[2]
  /\ maxSolutionCount \in counts
  /\ timeoutMs \in Timeouts
  /\ pc = "start"
  /\ clock = 0
  /\ wordCandidatesStack = <<>>
  /\ solutions = <<>>
  /\ result = <<>>
  /\ error = ""
  /\ source = ""
  /\ fallback = NoFallback
  /\ call = 1
  /\ first = NoCall
  /\ pigeonhole = NoPigeonhole
  /\ heap = NoHeap

\* A call with a positive maxSolutionCount.
InitWith(inputs) == InitFor(inputs, 1..MaxSolutionCount)

Init == InitWith(Inputs)

\* solveCryptogram, lines 40-56: the words are parsed; fewer than two words
\* go to tryBruteForceForShortCryptogram, which returns at once when the
\* ciphertext has more than 10 letters.
Start ==
  /\ pc = "start"
  /\ LET words == parseWords(ciphertext, dictionary.alphabet)
     IN  IF Len(words) < 2
         THEN /\ wordCandidatesStack' = <<>>
              /\ \E reading \in Readings(clock) :
                   /\ clock' = reading
                   /\ fallback' = [NoFallback EXCEPT
                                     !.startTimeMs = reading,
                                     !.timeoutMs = timeoutMs,
                                     !.attempts = permutationAttempts(
                                        Len(uniqueLettersOf(ciphertext, dictionary.alphabet)))]
              /\ IF Len(uniqueLettersOf(ciphertext, dictionary.alphabet)) > 10
                 THEN pc' = "done" /\ source' = "bruteForce"
                 ELSE pc' = "brute" /\ source' = source
         ELSE /\ wordCandidatesStack' = <<findWordCandidates(words, dictionary)>>
              /\ pc' = "loop"
              /\ UNCHANGED <<clock, fallback, source>>
  /\ UNCHANGED <<outside, solutions, result, error>>

\* The largest size of a candidate set (line 71).
maxCandidateWordsSize(wordCandidates) ==
  CHOOSE n \in {Len(wordCandidates[i].candidateWords) : i \in DOMAIN wordCandidates} :
    \A i \in DOMAIN wordCandidates : Len(wordCandidates[i].candidateWords) <= n

\* The body of the do-while (lines 58-102) for the popped word candidates:
\* what it leaves in the stack, the solutions and the error.
loopBody(stack, sols, text, dict) ==
  LET popped == stack[Len(stack)]
      rest == SubSeq(stack, 1, Len(stack) - 1)
      wordCandidates == pruneWordCandidates(popped, dict)
      chosen == [i \in DOMAIN wordCandidates |->
                   <<wordCandidates[i].word, Head(wordCandidates[i].candidateWords)>>]
      computed == computeCipher(chosen)
      plaintext == decryptCiphertext(text, computed.cipher)
  IN  IF wordCandidates = <<>>
      THEN [stack |-> rest, solutions |-> sols, error |-> ""]
      ELSE IF maxCandidateWordsSize(wordCandidates) > 1
      THEN [stack |-> rest \o Reverse(partitionWordCandidates(wordCandidates)),
            solutions |-> sols, error |-> ""]
      ELSE IF computed.threw # ""
      THEN [stack |-> rest, solutions |-> sols, error |-> computed.threw]
      ELSE IF HasSolution(sols, plaintext)
      THEN [stack |-> rest, solutions |-> sols, error |-> ""]
      ELSE [stack |-> rest,
            solutions |-> SetSolution(sols, plaintext,
                                      computeMeanFrequency(plaintext, dict),
                                      computed.cipher),
            error |-> ""]

\* The time check at the top of the loop (lines 59-61).
timedOutAtTop(reading, timeout) == reading >= timeout

\* One pass of the body of the do-while.
LoopBody ==
  /\ pc = "loop"
  /\ \E reading \in Readings(clock) :
       /\ clock' = reading
       /\ IF timedOutAtTop(reading, timeoutMs)
          THEN /\ pc' = "after"
               /\ UNCHANGED <<wordCandidatesStack, solutions, error>>
          ELSE LET out == loopBody(wordCandidatesStack, solutions, ciphertext, dictionary)
               IN  /\ wordCandidatesStack' = out.stack
                   /\ solutions' = out.solutions
                   /\ error' = out.error
                   /\ pc' = IF out.error # "" THEN "threw" ELSE "while"
  /\ UNCHANGED <<outside, result, source, fallback>>

\* The condition without its first conjunct: the loop goes on after
\* maxSolutionCount solutions.
loopConditionWithoutCap(sols, stack, reading, max, timeout) ==
  /\ Len(stack) # 0
  /\ reading < timeout

\* The condition without `wordCandidatesStack.length`: the loop goes on with
\* an empty stack.
loopConditionWithoutLength(sols, stack, reading, max, timeout) ==
  /\ Len(sols) < max
  /\ reading < timeout

\* The condition of the do-while (lines 103-107).
loopCondition(sols, stack, reading, max, timeout) ==
  /\ Len(sols) < max
  /\ Len(stack) # 0
  /\ reading < timeout

LoopWhile ==
  /\ pc = "while"
  /\ \E reading \in Readings(clock) :
       \* Date.now() is read only if the first two conjuncts hold
       /\ clock' = IF Len(solutions) < maxSolutionCount /\ Len(wordCandidatesStack) # 0
                   THEN reading ELSE clock
       /\ pc' = IF loopCondition(solutions, wordCandidatesStack, reading,
                                 maxSolutionCount, timeoutMs)
                THEN "loop" ELSE "after"
  /\ UNCHANGED <<outside, wordCandidatesStack, solutions, result, error, source, fallback>>


\* return: the call ends with this value.
Return(value, path) ==
  /\ pc' = "done"
  /\ result' = value
  /\ source' = path

\* What the loop of 5 attempts to build a specialized cipher (lines 740-812)
\* may leave: <<the attempts made before the time check broke the loop, the
\* last reading of the clock>>.
RECURSIVE specializedAttempts(_, _, _, _)
specializedAttempts(reading, startTimeMs, timeout, left) ==
  IF left = 0 THEN {<<0, reading>>}
  ELSE UNION {IF r - startTimeMs >= timeout
              THEN {<<0, r>>}
              ELSE {<<1 + made[1], made[2]>> :
                      made \in specializedAttempts(r, startTimeMs, timeout, left - 1)} :
              r \in Readings(reading)}

\* The numbers of ciphers that `made` attempts may push to baseCipers: an
\* attempt pushes its cipher if the cipher is valid.
pushedBy(made, text, alphabet) ==
  LET specialized == specializedCiphers(text, alphabet)
  IN  {n \in 0..made :
         /\ n > 0 => \E c \in specialized : validCipher(c)
         /\ n < made => \E c \in specialized : ~validCipher(c)}

\* Lines 109-111: without a solution and with time left the frequency
\* analysis is tried, and its first attempt is the frequency cipher itself
\* (lines 559-580); otherwise the solutions are returned, ranked.
AfterLoop ==
  /\ pc = "after"
  /\ IF Len(solutions) # 0
     THEN /\ Return(rankedSolutions(solutions), "search")
          /\ UNCHANGED <<clock, solutions, fallback>>
     ELSE \E reading \in Readings(clock) :
            IF reading < timeoutMs
            THEN \E started \in Readings(reading) :
                   LET budget == Remaining(timeoutMs, started)
                       frequencyCipher == frequencyCipherOf(ciphertext, dictionary.alphabet,
                                                            englishFrequency)
                   IN  /\ clock' = started
                       /\ fallback' = [NoFallback EXCEPT !.startTimeMs = started,
                                                         !.timeoutMs = budget,
                                                         !.attempts = attemptsWithin(budget)]
                       /\ solutions' = tryCipher(<<>>, ciphertext, dictionary,
                                                 frequencyCipher, 3)
                       /\ pc' = "frequency"
                       /\ UNCHANGED <<result, source>>
            ELSE /\ clock' = reading
                 /\ Return(rankedSolutions(solutions), "search")
                 /\ UNCHANGED <<solutions, fallback>>
  /\ UNCHANGED <<outside, wordCandidatesStack, error>>

\* tryBruteForceForShortCryptogram, one pass of the loop of lines 459-500,
\* and the return of lines 502-508 when the loop ends.
BruteAttempt ==
  /\ pc = "brute"
  /\ IF fallback.i < fallback.attempts
     THEN \E reading \in Readings(clock) :
            /\ clock' = reading
            /\ IF reading - fallback.startTimeMs >= fallback.timeoutMs
               THEN /\ Return(convertedSolutions(solutions), "bruteForce")
                    /\ UNCHANGED <<solutions, fallback>>
               ELSE \E cipher \in randomCiphers(uniqueLettersOf(ciphertext,
                                                                dictionary.alphabet)) :
                      LET sols == tryCipher(solutions, ciphertext, dictionary, cipher, 5)
                          \* the cap is tested where a solution is set (line 496)
                          set == significantPortion(decryptCiphertext(ciphertext, cipher),
                                                    dictionary, 5)
                      IN  /\ solutions' = sols
                          /\ fallback' = [fallback EXCEPT !.i = @ + 1]
                          /\ IF set /\ Len(sols) >= maxSolutionCount
                             THEN Return(convertedSolutions(sols), "bruteForce")
                             ELSE UNCHANGED <<pc, result, source>>
     ELSE /\ Return(convertedSolutions(solutions), "bruteForce")
          /\ UNCHANGED <<clock, solutions, fallback>>
  /\ UNCHANGED <<outside, wordCandidatesStack, error>>

\* Lines 112-122 after tryFrequencyAnalysis has returned: its solutions are
\* returned if it has any; otherwise tryCelebrityQuoteAnalysis starts and
\* builds its base ciphers (lines 657-812).
frequencyReturn(reading) ==
  IF Len(solutions) > 0
  THEN /\ clock' = reading
       /\ Return(convertedSolutions(solutions), "frequency")
       /\ UNCHANGED <<solutions, fallback>>
  ELSE \E started \in Readings(reading) :
         LET budget == Remaining(timeoutMs, started)
         IN  \E made \in specializedAttempts(started, started, budget, MaxAttempts) :
               \E pushed \in pushedBy(made[1], ciphertext, dictionary.alphabet) :
                 /\ clock' = made[2]
                 /\ fallback' = [NoFallback EXCEPT !.startTimeMs = started,
                                                   !.timeoutMs = budget,
                                                   !.bases = pushed]
                 /\ solutions' = <<>>
                 /\ pc' = "celebrity"
                 /\ UNCHANGED <<result, source>>

\* tryFrequencyAnalysis, one pass of the loop of lines 584-643, and what
\* follows when the loop ends.
FrequencyAttempt ==
  /\ pc = "frequency"
  /\ IF fallback.i < fallback.attempts
     THEN \E reading \in Readings(clock) :
            IF \/ reading - fallback.startTimeMs >= fallback.timeoutMs
               \/ Len(solutions) >= maxSolutionCount
            THEN frequencyReturn(reading)
            ELSE LET frequencyCipher == frequencyCipherOf(ciphertext, dictionary.alphabet,
                                                          englishFrequency)
                 IN  \E modifiedCipher \in randomSwaps(frequencyCipher,
                                                       Min(3, Len(frequencyCipher))) :
                       /\ clock' = reading
                       /\ solutions' = tryCipher(solutions, ciphertext, dictionary,
                                                 modifiedCipher, 3)
                       /\ fallback' = [fallback EXCEPT !.i = @ + 1]
                       /\ UNCHANGED <<pc, result, source>>
     ELSE frequencyReturn(clock)
  /\ UNCHANGED <<outside, wordCandidatesStack, error>>

\* Lines 123-133 after tryCelebrityQuoteAnalysis has returned.
celebrityReturn(sols) ==
  IF Len(sols) > 0
  THEN Return(convertedSolutions(sols), "celebrity")
  ELSE Return(rankedSolutions(<<>>), "search")

\* tryCelebrityQuoteAnalysis, one pass of the loop over baseCiphers up to the
\* loop of permutations (lines 815-847).  baseCiphers[0] is the standard
\* cipher; a specialized cipher is drawn when the loop reaches it.
CelebrityBase ==
  /\ pc = "celebrity"
  /\ IF fallback.base <= fallback.bases
     THEN \E reading \in Readings(clock) :
            IF \/ reading - fallback.startTimeMs >= fallback.timeoutMs
               \/ Len(solutions) >= maxSolutionCount
            THEN /\ clock' = reading
                 /\ celebrityReturn(solutions)
                 /\ UNCHANGED <<solutions, fallback>>
            ELSE \E baseCipher \in
                      IF fallback.base = 0
                      THEN {frequencyCipherOf(ciphertext, dictionary.alphabet,
                                              celebrityFrequency)}
                      ELSE {c \in specializedCiphers(ciphertext, dictionary.alphabet) :
                              validCipher(c)} :
                   LET sols == tryCipher(solutions, ciphertext, dictionary, baseCipher, 2)
                   IN  /\ solutions' = sols
                       /\ IF Len(sols) >= maxSolutionCount
                          THEN /\ clock' = reading
                               /\ celebrityReturn(sols)
                               /\ UNCHANGED fallback
                          ELSE \E now \in Readings(reading) :
                                 /\ clock' = now
                                 /\ fallback' =
                                      [fallback EXCEPT
                                         !.i = 0,
                                         !.attempts = attemptsWithin(
                                            Remaining(fallback.timeoutMs,
                                                      now - fallback.startTimeMs)),
                                         !.baseCipher = baseCipher]
                                 /\ pc' = "permutations"
                                 /\ UNCHANGED <<result, source>>
     ELSE /\ celebrityReturn(solutions)
          /\ UNCHANGED <<clock, solutions, fallback>>
  /\ UNCHANGED <<outside, wordCandidatesStack, error>>

\* Math.min(5, sortedCipherLetters.length / 2), as the number of passes of
\* the loop `for (j = 0; j < swapCount; j++)`.
celebritySwapCount(length) == Min(5, (length + 1) \div 2)

\* tryCelebrityQuoteAnalysis, one pass of the loop of permutations (lines
\* 848-907); when it ends the loop over baseCiphers goes on.
CelebrityPermutation ==
  /\ pc = "permutations"
  /\ LET nextBase == [fallback EXCEPT !.base = @ + 1]
     IN  IF fallback.i < fallback.attempts
         THEN \E reading \in Readings(clock) :
                /\ clock' = reading
                /\ IF \/ reading - fallback.startTimeMs >= fallback.timeoutMs
                      \/ Len(solutions) >= maxSolutionCount
                   THEN /\ fallback' = nextBase
                        /\ pc' = "celebrity"
                        /\ UNCHANGED solutions
                   ELSE \E modifiedCipher \in
                             randomSwaps(fallback.baseCipher,
                                         celebritySwapCount(Len(fallback.baseCipher))) :
                          LET sols == tryCipher(solutions, ciphertext, dictionary,
                                                modifiedCipher, 2)
                          IN  /\ solutions' = sols
                              /\ IF Len(sols) >= maxSolutionCount
                                 THEN fallback' = nextBase /\ pc' = "celebrity"
                                 ELSE fallback' = [fallback EXCEPT !.i = @ + 1] /\ pc' = pc
         ELSE /\ fallback' = nextBase
              /\ pc' = "celebrity"
              /\ UNCHANGED <<clock, solutions>>
  /\ UNCHANGED <<outside, wordCandidatesStack, result, error, source>>

Next ==
  \/ Start
  \/ LoopBody
  \/ LoopWhile
  \/ AfterLoop
  \/ BruteAttempt
  \/ FrequencyAttempt
  \/ CelebrityBase
  \/ CelebrityPermutation

Spec == Init /\ [][Next]_vars

\* The search driver alone: the call up to the end of its do-while and the
\* test that follows it.
Driver ==
  \/ Start
  \/ LoopBody
  \/ LoopWhile
  \/ AfterLoop

\* The control flow of the driver: where a step of Driver takes the call.
DriverMoves ==
  \/ pc = "start" /\ pc' \in {"loop", "brute", "done"}
  \/ pc = "loop" /\ pc' \in {"while", "after", "threw"}
  \/ pc = "while" /\ pc' \in {"loop", "after"}
  \/ pc = "after" /\ pc' \in {"done", "frequency"}

\* The call is not suspended: while the driver has a step to take, control
\* moves on.
DriverSpec == Init /\ [][Driver]_vars /\ WF_pc(DriverMoves)

(***************************************************************************)
(* Calls with any maxSolutionCount, zero included.                         *)
(***************************************************************************)
InitAny == InitFor(Inputs, 0..MaxSolutionCount)

SpecAny == InitAny /\ [][Next]_vars

(***************************************************************************)
(* Two calls, one after the other, with the same ciphertext and the same   *)
(* dictionary; the second has at least the budget of the first.            *)
(***************************************************************************)
PairInputs ==
  ({ <<"A", "E", "E", "A">>,
     <<"A", "E", "I">>,
     <<"A", "E", " ", "A", "I">>,
     <<"A", "E", " ", "E", "A">>,
     <<"I", "E", ",", " ", "A", "E", "!">>,
     <<"A", "E", "I", " ", "I", "E", "A">> } \X {manyWords})
  \cup
  ({ <<"A", "E", " ", "A", "I">> } \X {noWords})

InitPair == InitWith(PairInputs)

CallAgain ==
  /\ call = 1
  /\ pc \in {"done", "threw"}
  /\ call' = 2
  /\ first' = [maxSolutionCount |-> maxSolutionCount, timeoutMs |-> timeoutMs,
               result |-> result, error |-> error]
  /\ maxSolutionCount' \in maxSolutionCount..MaxSolutionCount
  /\ timeoutMs' \in {t \in Timeouts : t >= timeoutMs}
  /\ pc' = "start"
  /\ clock' = 0
  /\ wordCandidatesStack' = <<>>
  /\ solutions' = <<>>
  /\ result' = <<>>
  /\ error' = ""
  /\ source' = ""
  /\ fallback' = NoFallback
  /\ UNCHANGED <<ciphertext, dictionary, pigeonhole, heap>>

NextPair ==
  \/ Next
  \/ CallAgain

SpecPair == InitPair /\ [][NextPair]_vars

(***************************************************************************)
(* computeLetterCandidates followed pass by pass: the do-while of lines    *)
(* 269-305 on the letter candidates of word candidates over an alphabet of *)
(* PigeonholeSize letters, each letter a word of the ciphertext.           *)
(***************************************************************************)
\* The dictionary of the one-letter words of the first PigeonholeSize letters.
letterWords ==
  [alphabet |-> {englishFrequency[i] : i \in 1..PigeonholeSize},
   entries |-> [i \in 1..PigeonholeSize |-> <<<<englishFrequency[i]>>, 1>>]]

\* The ciphertext of these words: "E T A".
letterText ==
  [k \in 1..(2 * PigeonholeSize - 1) |->
     IF k % 2 = 1 THEN englishFrequency[(k + 1) \div 2] ELSE " "]

\* The word candidates of letterText: each word with a set of candidates
\* that is not empty, in the order of the dictionary.
letterWordCandidates ==
  LET words == parseWords(letterText, letterWords.alphabet)
      all == patternWords(letterWords, computePattern(words[1]))
  IN  {[i \in DOMAIN words |->
          [word |-> words[i], candidateWords |-> AtIndices(all, kept[i])]] :
         kept \in [DOMAIN words -> (SUBSET DOMAIN all) \ {{}}]}

\* pruneWordCandidates has called computeLetterCandidates, which has
\* computed the letter candidates of lines 238-267.
InitPigeonhole ==
  /\ ciphertext = letterText
  /\ dictionary = letterWords
  /\ maxSolutionCount = 1
  /\ timeoutMs = Infinity
  /\ pc = "pigeonhole"
  /\ clock = 0
  /\ wordCandidatesStack = <<>>
  /\ solutions = <<>>
  /\ result = <<>>
  /\ error = ""
  /\ source = ""
  /\ fallback = NoFallback
  /\ call = 1
  /\ first = NoCall
  /\ heap = NoHeap
  /\ \E wordCandidates \in letterWordCandidates :
       pigeonhole = [wordCandidates |-> wordCandidates,
                     letterCandidates |->
                       initialLetterCandidates(wordCandidates, letterWords),
                     iterations |-> 0]

\* One pass of the do-while (lines 270-305).
PigeonholeStep ==
  /\ pc = "pigeonhole"
  /\ LET next == pigeonholePass(pigeonhole.letterCandidates)
         candidatesChanged == next # pigeonhole.letterCandidates
     IN  /\ pigeonhole' = [pigeonhole EXCEPT !.letterCandidates = next,
                                             !.iterations = @ + 1]
         /\ pc' = IF candidatesChanged THEN "pigeonhole" ELSE "converged"
  /\ UNCHANGED <<args, call, first, heap, clock, wordCandidatesStack, solutions,
                 result, error, source, fallback>>

\* The loop is sequential code: while it has a pass to make, it makes it.
PigeonholeSpec == InitPigeonhole /\ [][PigeonholeStep]_vars /\ WF_vars(PigeonholeStep)

(***************************************************************************)
(* The search with its Sets as objects: which Set a Map holds, and which   *)
(* Set a delete changes.  The timeout is infinite.                         *)
(***************************************************************************)
\* The calls that reach the search: two or more words.
HeapInputs ==
  {input \in Inputs : Len(parseWords(input[1], input[2].alphabet)) >= 2}

\* Before the call the Sets are those of the dictionary: its alphabet and
\* the Set of every pattern.
InitHeap ==
  /\ \E input \in HeapInputs : ciphertext = input[1] /\ dictionary = input[2]
  /\ maxSolutionCount \in 1..MaxSolutionCount
  /\ timeoutMs = Infinity
  /\ pc = "start"
  /\ clock = 0
  /\ wordCandidatesStack = <<>>
  /\ solutions = <<>>
  /\ result = <<>>
  /\ error = ""
  /\ source = ""
  /\ fallback = NoFallback
  /\ call = 1
  /\ first = NoCall
  /\ pigeonhole = NoPigeonhole
  /\ heap = [NoHeap EXCEPT !.wordSets = patternWordSets(dictionary),
                           !.letterSets = <<dictionary.alphabet>>]

\* Lines 46-56: the stack begins with the Map of findWordCandidates, which
\* holds the Sets of dictionary.patternWords themselves.
HeapStart ==
  /\ pc = "start"
  /\ LET words == parseWords(ciphertext, dictionary.alphabet)
         found == foundSets(heap.wordSets, words, dictionary, 1, <<>>)
     IN  heap' = [heap EXCEPT !.wordSets = found.sets, !.stack = <<found.map>>]
  /\ pc' = "heapLoop"
  /\ UNCHANGED <<args, call, first, pigeonhole, clock, wordCandidatesStack,
                 solutions, result, error, source, fallback>>

\* Where the loop goes after a pass (lines 103-107, no timeout).
afterPass(sols, stack, failed) ==
  IF failed # "" THEN "threw"
  ELSE IF loopCondition(sols, stack, 0, maxSolutionCount, Infinity)
  THEN "heapLoop" ELSE "heapDone"

\* Lines 63-102 and 339-343: the top is popped and pruned.  If a word has
\* several candidates, partitionWordCandidates is entered and copies its
\* argument into remainingWordCandidates; if not, the pass ends as the body
\* of the loop does on the pruned word candidates.
HeapLoopBody ==
  /\ pc = "heapLoop"
  /\ LET popped == heap.stack[Len(heap.stack)]
         rest == SubSeq(heap.stack, 1, Len(heap.stack) - 1)
         pruned == prunedSets(heap.wordSets, heap.letterSets, popped, dictionary)
         copy == copiedSets(pruned.wordSets, pruned.map)
         out == loopBody(<<View(heap.wordSets, popped)>>, solutions, ciphertext,
                         dictionary)
     IN  IF /\ pruned.map # <<>>
            /\ maxCandidateWordsSize(View(pruned.wordSets, pruned.map)) > 1
         THEN /\ heap' = [wordSets |-> copy.sets, letterSets |-> pruned.letterSets,
                          stack |-> rest, input |-> pruned.map,
                          remaining |-> copy.map, at |-> 1, partitioned |-> <<>>]
              /\ pc' = "heapPartition"
              /\ UNCHANGED <<solutions, error>>
         ELSE /\ heap' = [heap EXCEPT !.wordSets = pruned.wordSets,
                                      !.letterSets = pruned.letterSets,
                                      !.stack = rest]
              /\ solutions' = out.solutions
              /\ error' = out.error
              /\ pc' = afterPass(out.solutions, rest, out.error)
  /\ UNCHANGED <<args, call, first, pigeonhole, clock, wordCandidatesStack,
                 result, source, fallback>>

\* Lines 344-359, one word of the loop of partitionWordCandidates: a word
\* with one candidate is skipped; of another the first candidate is deleted
\* from its Set in remainingWordCandidates, the Map is copied, the copy gets
\* a new Set of that candidate for the word, and the copy is pushed to
\* partitionedWordCandidates.  get(first(...)) throws on an empty Set.
HeapPartitionWord ==
  /\ pc = "heapPartition"
  /\ heap.at <= Len(heap.remaining)
  /\ LET set == heap.remaining[heap.at].set
         candidateWords == heap.wordSets[set]
         deleted == [heap.wordSets EXCEPT ![set] = Tail(@)]
         copy == copiedSets(deleted, heap.remaining)
         fixed == NewSet(copy.sets, <<Head(candidateWords)>>)
         newWordCandidates == [copy.map EXCEPT ![heap.at].set = fixed.id]
     IN  IF Len(candidateWords) = 1
         THEN /\ heap' = [heap EXCEPT !.at = @ + 1]
              /\ UNCHANGED <<pc, error>>
         ELSE IF Len(candidateWords) = 0
         THEN /\ pc' = "threw"
              /\ error' = "get"
              /\ UNCHANGED heap
         ELSE /\ heap' = [heap EXCEPT !.wordSets = fixed.sets,
                                      !.partitioned = Append(@, newWordCandidates),
                                      !.at = @ + 1]
              /\ UNCHANGED <<pc, error>>
  /\ UNCHANGED <<args, call, first, pigeonhole, clock, wordCandidatesStack,
                 solutions, result, source, fallback>>

\* Lines 361-363 and 78-81: remainingWordCandidates is pushed last, and the
\* Maps are pushed to the stack reversed.
HeapPush ==
  /\ pc = "heapPartition"
  /\ heap.at > Len(heap.remaining)
  /\ LET partitionedWordCandidates == Append(heap.partitioned, heap.remaining)
         stack == heap.stack \o Reverse(partitionedWordCandidates)
     IN  /\ heap' = [heap EXCEPT !.stack = stack, !.input = <<>>,
                                 !.remaining = <<>>, !.at = 0,
                                 !.partitioned = <<>>]
         /\ pc' = afterPass(solutions, stack, "")
  /\ UNCHANGED <<args, call, first, pigeonhole, clock, wordCandidatesStack,
                 solutions, result, error, source, fallback>>

HeapNext ==
  \/ HeapStart
  \/ HeapLoopBody
  \/ HeapPartitionWord
  \/ HeapPush

HeapSpec == InitHeap /\ [][HeapNext]_vars

(***************************************************************************)
(* The terms of the specification.                                         *)
(***************************************************************************)
\* A valid input: the ciphertext has a word and max_solutions is positive.
ValidInput ==
  /\ Len(parseWords(ciphertext, dictionary.alphabet)) > 0
  /\ maxSolutionCount > 0

\* The call has returned (it has not thrown).
Returned == pc = "done"

\* A returned cipher is injective, it decrypts the ciphertext to the returned
\* plaintext, and every word of the plaintext is a word of the dictionary.
SoundSolution(solution, text, dict) ==
  /\ validCipher(solution.cipher)
  /\ decryptCiphertext(text, solution.cipher) = solution.plaintext
  /\ \A word \in Range(parseWords(solution.plaintext, dict.alphabet)) :
       wordFrequenciesHas(dict, word)

(***************************************************************************)
(* C1  Candidate soundness.                                                *)
(***************************************************************************)
\* C1: for every valid input, every solution the call returns has an
\* injective cipher that maps the ciphertext to the returned plaintext, and
\* every word of that plaintext is a word of the dictionary.
CandidateSoundness ==
  (ValidInput /\ Returned) =>
    \A k \in DOMAIN result : SoundSolution(result[k], ciphertext, dictionary)

(***************************************************************************)
(* C2  No internal invariant violation.                                    *)
(***************************************************************************)
\* C2: the call never fails with an internal invariant violation: no
\* invariant of computeCipher throws (when the popped word candidates, pruned
\* once, leave one candidate per word, every ciphertext letter has one
\* plaintext letter across all words and the letters are distinct), and the
\* words that are zipped have the same length.
NoInvariantViolation ==
  /\ pc # "threw"
  /\ error = ""
  /\ \A s \in DOMAIN wordCandidatesStack :
       \A i \in DOMAIN wordCandidatesStack[s] :
         \A c \in DOMAIN wordCandidatesStack[s][i].candidateWords :
           zipWordsOk(wordCandidatesStack[s][i].word,
                      wordCandidatesStack[s][i].candidateWords[c])

(***************************************************************************)
(* C3  Completeness.                                                       *)
(***************************************************************************)
\* The injective ciphers on the letters of the ciphertext that map every
\* word of the ciphertext to a word of the dictionary.
ConsistentCiphers(text, dict) ==
  LET letters == uniqueLettersOf(text, dict.alphabet)
      words == parseWords(text, dict.alphabet)
  IN  {cipher \in randomCiphers(letters) :
         \A i \in DOMAIN words :
           wordFrequenciesHas(dict, decryptCiphertext(words[i], cipher))}

ConsistentPlaintexts(text, dict) ==
  {decryptCiphertext(text, cipher) : cipher \in ConsistentCiphers(text, dict)}

ReturnedPlaintexts == {result[k].plaintext : k \in DOMAIN result}

\* C3: with an infinite timeout and max_solutions at least the number of
\* consistent assignments, every plaintext that an injective cipher mapping
\* every ciphertext word to a dictionary word produces is among the returned
\* solutions; so zero solutions are returned only if there is no such cipher.
Completeness ==
  (/\ ValidInput
   /\ Returned
   /\ timeoutMs = Infinity
   /\ maxSolutionCount >= Cardinality(ConsistentPlaintexts(ciphertext, dictionary)))
  => ConsistentPlaintexts(ciphertext, dictionary) \subseteq ReturnedPlaintexts

(***************************************************************************)
(* C4  Ranking.                                                            *)
(***************************************************************************)
\* The place of a plaintext in the order of discovery.
Discovery(sols, plaintext) ==
  CHOOSE k \in DOMAIN sols : sols[k].plaintext = plaintext

\* C4: the returned list is sorted by mean frequency, the highest first, and
\* solutions of equal mean frequency are in the order of their discovery.
Ranking ==
  Returned =>
    \A i, j \in DOMAIN result :
      i < j =>
        LET mean1 == computeMeanFrequency(result[i].plaintext, dictionary)
            mean2 == computeMeanFrequency(result[j].plaintext, dictionary)
        IN  /\ ~MeanLess(mean1, mean2)
            /\ ~MeanLess(mean2, mean1) =>
                 Discovery(solutions, result[i].plaintext)
                   < Discovery(solutions, result[j].plaintext)

(***************************************************************************)
(* C5  Solution cap.                                                       *)
(***************************************************************************)
\* No more than max_solutions solutions are recorded or returned, and the
\* returned plaintexts are distinct.
CapRespected ==
  /\ Len(solutions) <= maxSolutionCount
  /\ \A i, j \in DOMAIN solutions :
       i # j => solutions[i].plaintext # solutions[j].plaintext
  /\ Returned =>
       /\ Len(result) <= maxSolutionCount
       /\ \A i, j \in DOMAIN result : i # j => result[i].plaintext # result[j].plaintext

\* Once max_solutions plaintexts are recorded nothing more is popped or
\* recorded.
CapStops ==
  Len(solutions) >= maxSolutionCount =>
    /\ solutions' = solutions
    /\ wordCandidatesStack' = wordCandidatesStack

\* C5: for every positive max_solutions and every timeout, at most
\* max_solutions solutions are returned, all with distinct plaintexts, and
\* the search stops as soon as max_solutions plaintexts have been recorded.
SolutionCap == [](CapRespected) /\ [][CapStops]_vars

\* The search has returned max_solutions solutions and left word candidates
\* on the stack.
SolutionCapReached ==
  /\ Returned
  /\ source = "search"
  /\ Len(result) = maxSolutionCount
  /\ Len(wordCandidatesStack) > 0

(***************************************************************************)
(* C6  Termination.                                                        *)
(***************************************************************************)
\* The total candidate count of word candidates.
RECURSIVE TotalFrom(_, _)
TotalFrom(wordCandidates, i) ==
  IF i > Len(wordCandidates) THEN 0
  ELSE Len(wordCandidates[i].candidateWords) + TotalFrom(wordCandidates, i + 1)

Total(wordCandidates) == TotalFrom(wordCandidates, 1)

\* No candidate set of smaller is larger than the set of the same word in larger.
Within(smaller, larger) ==
  /\ Len(smaller) = Len(larger)
  /\ \A i \in DOMAIN smaller :
       /\ smaller[i].word = larger[i].word
       /\ Range(smaller[i].candidateWords) \subseteq Range(larger[i].candidateWords)

\* A pass of the loop body pops the top, and what it pushes are children of
\* the pruned top: each has a strictly smaller total candidate count than
\* the pruned top, which has no candidate the top has not.
PassShrinks ==
  (pc = "loop" /\ pc' = "while") =>
    LET below == Len(wordCandidatesStack) - 1
        parent == wordCandidatesStack[Len(wordCandidatesStack)]
        pruned == pruneWordCandidates(parent, dictionary)
    IN  /\ Len(wordCandidatesStack') >= below
        /\ SubSeq(wordCandidatesStack', 1, below) = SubSeq(wordCandidatesStack, 1, below)
        /\ pruned # <<>> => Within(pruned, parent)
        /\ \A k \in (below + 1)..Len(wordCandidatesStack') :
             /\ Total(wordCandidatesStack'[k]) < Total(pruned)
             /\ Within(wordCandidatesStack'[k], pruned)

\* The loop is left with the stack empty or the cap reached.
LoopLeft ==
  (timeoutMs = Infinity /\ pc = "after") =>
    \/ Len(wordCandidatesStack) = 0
    \/ Len(solutions) >= maxSolutionCount

DeadlinePassed ==
  LET startTimeMs == IF pc = "brute" \/ source = "bruteForce"
                     THEN fallback.startTimeMs ELSE 0
  IN  clock - startTimeMs >= timeoutMs

\* The same plaintexts in the same order, each with the same letter mapping.
SameSolutions(result1, result2) ==
  /\ Len(result1) = Len(result2)
  /\ \A k \in DOMAIN result1 :
       /\ result1[k].plaintext = result2[k].plaintext
       /\ Range(result1[k].cipher) = Range(result2[k].cipher)

\* After the deadline the call has not thrown, and what it returns are the
\* solutions recorded so far, ranked.
ReturnsRecorded ==
  DeadlinePassed =>
    /\ pc # "threw"
    /\ Returned => SameSolutions(result, rankedSolutions(solutions))

\* After the deadline no word candidates are popped and no solution is
\* recorded.
NothingFurther ==
  (DeadlinePassed /\ pc # "start") =>
    /\ wordCandidatesStack' = wordCandidatesStack
    /\ solutions' = solutions

\* C7: once the deadline has passed, no further word candidates are popped
\* or processed, nothing is thrown, and the call returns exactly the
\* solutions recorded so far (possibly none), ranked.
TimeoutNotAnError == [](ReturnsRecorded) /\ [][NothingFurther]_vars

(***************************************************************************)
(* C8  Determinism.                                                        *)
(***************************************************************************)
\* Both calls have returned.
BothReturned ==
  /\ call = 2
  /\ Returned
  /\ first.error = ""

\* C8: with an infinite timeout and the same ciphertext, dictionary and
\* max_solutions, two calls return the same output: the same solutions with
\* the same ciphers in the same order.
Determinism ==
  (/\ BothReturned
   /\ first.timeoutMs = Infinity
   /\ timeoutMs = Infinity
   /\ first.maxSolutionCount = maxSolutionCount)
  => result = first.result

(***************************************************************************)
(* C9  Monotonicity of budget.                                             *)
(***************************************************************************)
FirstPlaintexts == {first.result[k].plaintext : k \in DOMAIN first.result}

\* C9: for the same ciphertext and dictionary, the plaintexts returned with
\* a larger max_solutions include those returned with a smaller one, and
\* with the same max_solutions the plaintexts returned with a larger timeout
\* include those returned with a smaller one.
Monotonicity ==
  (/\ BothReturned
   /\ \/ first.timeoutMs = timeoutMs /\ first.maxSolutionCount <= maxSolutionCount
      \/ first.maxSolutionCount = maxSolutionCount /\ first.timeoutMs <= timeoutMs)
  => FirstPlaintexts \subseteq ReturnedPlaintexts

(***************************************************************************)
(* C10  A ciphertext of a single word.                                     *)
(***************************************************************************)
\* The word of solution k of the returned list.
ReturnedWord(k) == parseWords(result[k].plaintext, dictionary.alphabet)[1]

\* C10: a ciphertext of a single distinct word is solved by the pattern
\* search: without a timeout the call returns one solution per dictionary
\* word of the pattern of the ciphertext word, up to max_solutions, each
\* with the cipher that maps the ciphertext word to it, the most frequent
\* word first.
SingleWordSolved ==
  (/\ Returned
   /\ timeoutMs = Infinity
   /\ Len(parseWords(ciphertext, dictionary.alphabet)) = 1)
  => LET word == parseWords(ciphertext, dictionary.alphabet)[1]
         candidateWords == patternWords(dictionary, computePattern(word))
     IN  /\ Len(result) = Min(maxSolutionCount, Len(candidateWords))
         /\ \A k \in DOMAIN result :
              /\ ReturnedWord(k) \in Range(candidateWords)
              /\ decryptCiphertext(word, result[k].cipher) = ReturnedWord(k)
         /\ \A i, j \in DOMAIN result :
              i < j => /\ ReturnedWord(i) # ReturnedWord(j)
                       /\ wordFrequenciesGet(dictionary, ReturnedWord(i))
                            >= wordFrequenciesGet(dictionary, ReturnedWord(j))

(***************************************************************************)
(* C11  Invalid input is rejected.                                         *)
(***************************************************************************)
\* C11: a call whose ciphertext has no word after tokenization, or whose
\* max_solutions is not positive, fails with InvalidInput: it records no
\* solution and it does not return.
InvalidInputRejected ==
  ~ValidInput =>
    /\ ~Returned
    /\ solutions = <<>>
    /\ error \in {"", "InvalidInput"}

(***************************************************************************)
(* C12  A timeout of 0 is an infinite budget.                              *)
(***************************************************************************)
\* C12: a call with timeout 0 returns what a call with the same ciphertext,
\* dictionary and max_solutions returns without a timeout.
ZeroTimeoutIsInfinite ==
  (/\ BothReturned
   /\ first.timeoutMs = 0
   /\ timeoutMs = Infinity
   /\ first.maxSolutionCount = maxSolutionCount)
  => SameSolutions(first.result, result)

(***************************************************************************)
(* C13  A word without a candidate.                                        *)
(***************************************************************************)
\* Some word of the ciphertext has no dictionary word of its pattern.
EmptyWordCandidates ==
  LET words == parseWords(ciphertext, dictionary.alphabet)
  IN  \E i \in DOMAIN words :
        patternWords(dictionary, computePattern(words[i])) = <<>>

\* C13: if some ciphertext word has no dictionary word of its pattern, the
\* call returns an empty list, and nothing is partitioned or explored: the
\* stack never holds more than the initial word candidates.
EmptyCandidatesReturnEmpty ==
  EmptyWordCandidates =>
    /\ Len(wordCandidatesStack) <= 1
    /\ pc # "threw"
    /\ Returned => result = <<>>

(***************************************************************************)
(* C14  The empty dictionary.                                              *)
(***************************************************************************)
\* C14: against a dictionary without words the call records no solution,
\* does not throw, and returns an empty list, for every ciphertext.
EmptyDictionary ==
  dictionary.entries = <<>> =>
    /\ solutions = <<>>
    /\ pc # "threw"
    /\ Returned => result = <<>>

\* A call against the empty dictionary has returned after the search and
\* both analyses found nothing.
EmptyDictionaryReturned ==
  /\ dictionary.entries = <<>>
  /\ Len(parseWords(ciphertext, dictionary.alphabet)) >= 2
  /\ Returned
  /\ fallback.base > 0

(***************************************************************************)
(* C15  Non-alphabet characters are preserved.                             *)
(***************************************************************************)
\* The plaintext has the length of the text, and holds the character of the
\* text wherever the cipher has no entry for it or it is not of the alphabet.
Preserved(text, plaintext, cipher, alphabet) ==
  /\ Len(plaintext) = Len(text)
  /\ \A i \in DOMAIN text :
       (~Has(cipher, text[i]) \/ text[i] \notin alphabet) => plaintext[i] = text[i]

\* C15: the plaintext of every solution, recorded or returned, has the
\* length of the ciphertext, and at every position where the ciphertext
\* character is not in the domain of the cipher (a space, punctuation, any
\* character that is not of the alphabet) it holds the same character.
NonAlphabetPreserved ==
  /\ \A k \in DOMAIN solutions :
       Preserved(ciphertext, solutions[k].plaintext, solutions[k].cipher,
                 dictionary.alphabet)
  /\ \A k \in DOMAIN result :
       Preserved(ciphertext, result[k].plaintext, result[k].cipher, dictionary.alphabet)

\* A ciphertext with a comma, a space and an exclamation mark has been solved.
PunctuationKept ==
  /\ Returned
  /\ Len(result) > 0
  /\ {",", " ", "!"} \subseteq Range(ciphertext)

(***************************************************************************)
(* C16  Cipher completeness.                                               *)
(***************************************************************************)
\* The letters a cipher has an entry for.
CipherDomain(cipher) == {cipher[i][1] : i \in DOMAIN cipher}

\* The letters of the alphabet that occur in the ciphertext.
CiphertextLetters ==
  {ciphertext[i] : i \in {j \in DOMAIN ciphertext : ciphertext[j] \in dictionary.alphabet}}

\* C16: in every returned solution the cipher has one entry for each letter
\* of the alphabet that occurs in the ciphertext, and no other entry.
CipherCompleteness ==
  Returned =>
    \A k \in DOMAIN result :
      /\ CipherDomain(result[k].cipher) = CiphertextLetters
      /\ Len(result[k].cipher) = Cardinality(CiphertextLetters)

\* The search has returned a solution of a ciphertext of several words with
\* three letters or more.
SeveralWordsSolved ==
  /\ Returned
  /\ source = "search"
  /\ Len(result) > 0
  /\ Cardinality(CiphertextLetters) >= 3

(***************************************************************************)
(* C17  Idempotence of prune.                                              *)
(***************************************************************************)
\* C17: for the word candidates the search holds, if pruning them succeeds
\* then pruning the result again, with the letter candidates computed from
\* that result, returns the same word candidates.
PruneIdempotent ==
  \A s \in DOMAIN wordCandidatesStack :
    LET prunedWordCandidates == pruneWordCandidates(wordCandidatesStack[s], dictionary)
    IN  prunedWordCandidates # <<>> =>
          pruneWordCandidates(prunedWordCandidates, dictionary) = prunedWordCandidates

(***************************************************************************)
(* C18  The pigeonhole closure reaches its fixpoint.                       *)
(***************************************************************************)
\* The do-while has made no more passes than the alphabet has letters.
WithinAlphabetPasses ==
  pigeonhole.iterations <= Cardinality(dictionary.alphabet)

\* The loop has ended on the letter candidates it returns: what
\* computeLetterCandidates computes of the word candidates, unchanged by
\* one more pass.
Converged ==
  pc = "converged" =>
    /\ pigeonhole.letterCandidates
         = computeLetterCandidates(pigeonhole.wordCandidates, dictionary)
    /\ pigeonholePass(pigeonhole.letterCandidates) = pigeonhole.letterCandidates

\* C18: for all word candidates the pigeonhole loop of
\* computeLetterCandidates ends, after at most as many passes of its
\* group-and-subtract step as the alphabet has letters.
PigeonholeFixpoint ==
  /\ [](WithinAlphabetPasses)
  /\ [](Converged)
  /\ <>(pc = "converged")

\* The loop has ended after as many passes as the alphabet has letters.
LongestClosure ==
  /\ pc = "converged"
  /\ pigeonhole.iterations = Cardinality(dictionary.alphabet)

(***************************************************************************)
(* C19  The partitioner yields a spanning partition.                       *)
(***************************************************************************)
\* The candidate space of word candidates: the choices of one candidate for
\* every word, the cartesian product of the candidate sets.
RECURSIVE CandidateSpace(_)
CandidateSpace(wordCandidates) ==
  IF wordCandidates = <<>> THEN {<<>>}
  ELSE {<<candidateWord>> \o others :
          candidateWord \in Range(Head(wordCandidates).candidateWords),
          others \in CandidateSpace(Tail(wordCandidates))}

\* The children are a partition of the space of the parent: no choice is in
\* two children, and the choices of the children are those of the parent.
SpanningPartition(parent, children) ==
  /\ \A k, l \in DOMAIN children :
       k # l => CandidateSpace(children[k]) \cap CandidateSpace(children[l]) = {}
  /\ UNION {CandidateSpace(children[k]) : k \in DOMAIN children}
       = CandidateSpace(parent)

\* A pass of the loop that pushes a partition: the pruned word candidates it
\* popped have a word with several candidates (lines 71-82).
PushesPartition ==
  /\ pc = "loop"
  /\ pc' = "while"
  /\ Len(wordCandidatesStack') > Len(wordCandidatesStack)

\* The children a pass of the loop has pushed, in the order the partitioner
\* emitted them (line 78 pushes them reversed).
PushedChildren ==
  Reverse(SubSeq(wordCandidatesStack', Len(wordCandidatesStack),
                 Len(wordCandidatesStack')))

\* C19: whenever the search partitions word candidates in which a word has
\* more than one candidate, the candidate spaces of the children it pushes
\* are pairwise disjoint and their union is the candidate space of the
\* partitioned word candidates.
SpanningPartitionPushed ==
  [][PushesPartition =>
       LET parent == pruneWordCandidates(
                       wordCandidatesStack[Len(wordCandidatesStack)], dictionary)
       IN  /\ maxCandidateWordsSize(parent) > 1
           /\ SpanningPartition(parent, PushedChildren)]_vars

\* A partition of two words with several candidates is on the stack: its
\* three children, the first on top, with disjoint spaces that are not empty.
ThreeChildrenPushed ==
  /\ pc = "while"
  /\ Len(wordCandidatesStack) >= 3
  /\ LET top == Len(wordCandidatesStack)
         children == <<wordCandidatesStack[top], wordCandidatesStack[top - 1],
                       wordCandidatesStack[top - 2]>>
     IN  /\ \A k \in 1..3 : CandidateSpace(children[k]) # {}
         /\ \A k, l \in 1..3 :
              k # l => CandidateSpace(children[k]) \cap CandidateSpace(children[l]) = {}
         /\ Len(children[1][1].candidateWords) = 1
         /\ Len(children[2][1].candidateWords) >= 1
         /\ children[1][1].candidateWords[1] \notin Range(children[2][1].candidateWords)

(***************************************************************************)
(* C20  The children of the partitioner.                                   *)
(***************************************************************************)
\* The words of the parent with several candidates, in the order of the
\* parent.
MultiCandidateWords(parent) ==
  AtIndices([i \in DOMAIN parent |-> i],
            {i \in DOMAIN parent : Len(parent[i].candidateWords) > 1})

\* The child has the words of the parent, in the same order.
SameWords(parent, child) ==
  /\ DOMAIN child = DOMAIN parent
  /\ \A j \in DOMAIN parent : child[j].word = parent[j].word

\* The last child is the parent without the first candidate of every word
\* that has several candidates.
FinalChild(parent, child) ==
  /\ SameWords(parent, child)
  /\ \A j \in DOMAIN parent :
       Range(child[j].candidateWords)
         = IF Len(parent[j].candidateWords) > 1
           THEN Range(Tail(parent[j].candidateWords))
           ELSE Range(parent[j].candidateWords)

\* The children as the claim states them: the k-th child fixes the k-th word
\* with several candidates to its first candidate, and every other word has
\* the candidates it has in the parent.
ChildrenLeaveOthersUntouched(parent, children) ==
  LET order == MultiCandidateWords(parent)
  IN  /\ Len(children) = Len(order) + 1
      /\ \A k \in DOMAIN order :
           /\ SameWords(parent, children[k])
           /\ children[k][order[k]].candidateWords
                = <<Head(parent[order[k]].candidateWords)>>
           /\ \A j \in DOMAIN parent \ {order[k]} :
                Range(children[k][j].candidateWords) = Range(parent[j].candidateWords)
      /\ FinalChild(parent, children[Len(children)])

\* The children as the code emits them: the k-th child fixes the k-th word
\* with several candidates to its first candidate, the words with several
\* candidates before it have lost their first candidate, and every other
\* word has the candidates it has in the parent.
ChildrenAfterEarlierRemovals(parent, children) ==
  LET order == MultiCandidateWords(parent)
  IN  /\ Len(children) = Len(order) + 1
      /\ \A k \in DOMAIN order :
           /\ SameWords(parent, children[k])
           /\ children[k][order[k]].candidateWords
                = <<Head(parent[order[k]].candidateWords)>>
           /\ \A j \in DOMAIN parent \ {order[k]} :
                Range(children[k][j].candidateWords)
                  = IF Len(parent[j].candidateWords) > 1 /\ j < order[k]
                    THEN Range(Tail(parent[j].candidateWords))
                    ELSE Range(parent[j].candidateWords)
      /\ FinalChild(parent, children[Len(children)])

\* C20 as stated: for each word with more than one candidate the
\* partitioner emits a child in which that word is fixed to its first
\* candidate and every other word keeps exactly the candidate set it has in
\* the parent; the final child is the parent with the first candidate
\* removed from every word with several candidates.
OtherWordsUntouched ==
  [][PushesPartition =>
       ChildrenLeaveOthersUntouched(
         pruneWordCandidates(wordCandidatesStack[Len(wordCandidatesStack)], dictionary),
         PushedChildren)]_vars

\* C20 amended: for each word with more than one candidate the partitioner
\* emits a child in which that word is fixed to its first candidate, every
\* word with more than one candidate before it has lost its first candidate,
\* and every other word keeps exactly the candidate set it has in the
\* parent; the final child is the parent with the first candidate removed
\* from every word with several candidates.
EarlierWordsLoseFirstCandidate ==
  [][PushesPartition =>
       ChildrenAfterEarlierRemovals(
         pruneWordCandidates(wordCandidatesStack[Len(wordCandidatesStack)], dictionary),
         PushedChildren)]_vars

\* The second child of a partition is on the stack under the first: it fixes
\* a later word to the first candidate the word has in the first child, and
\* it does not have the candidate the first child fixes an earlier word to.
SecondChildPushed ==
  /\ pc = "while"
  /\ Len(wordCandidatesStack) >= 3
  /\ LET firstChild == wordCandidatesStack[Len(wordCandidatesStack)]
         secondChild == wordCandidatesStack[Len(wordCandidatesStack) - 1]
     IN  /\ DOMAIN firstChild = DOMAIN secondChild
         /\ \E i, j \in DOMAIN firstChild :
              /\ i < j
              /\ Len(firstChild[i].candidateWords) = 1
              /\ secondChild[i].candidateWords # <<>>
              /\ firstChild[i].candidateWords[1] \notin Range(secondChild[i].candidateWords)
              /\ Len(firstChild[j].candidateWords) > 1
              /\ secondChild[j].candidateWords = <<Head(firstChild[j].candidateWords)>>

(***************************************************************************)
(* C21  Exploration order.                                                 *)
(***************************************************************************)
\* The children a pass has pushed lie on the stack with the child of the
\* earliest word with several candidates on top, the children of the later
\* words under it in their order, and the remainder under them all.
FixChildrenAboveRemainder(parent, stack, below) ==
  LET order == MultiCandidateWords(parent)
  IN  /\ Len(stack) = below + Len(order) + 1
      /\ \A k \in DOMAIN order :
           stack[Len(stack) + 1 - k][order[k]].candidateWords
             = <<Head(parent[order[k]].candidateWords)>>
      /\ FinalChild(parent, stack[below + 1])

\* C21: a pass of the search loop pops the top of the stack and leaves what
\* is under it in place, and when it partitions it leaves the children with
\* fix-word-1 on top, then fix-word-2, ..., fix-word-m, and the remainder at
\* the bottom of them: the next word candidates popped are those of the
\* child that fixes the earliest word with several candidates, and the
\* remainder is popped only when every child above it and everything they
\* pushed has been popped.
ExplorationOrder ==
  [][(pc = "loop" /\ pc' = "while") =>
       LET below == Len(wordCandidatesStack) - 1
           parent == pruneWordCandidates(
                       wordCandidatesStack[Len(wordCandidatesStack)], dictionary)
       IN  /\ Len(wordCandidatesStack') >= below
           /\ SubSeq(wordCandidatesStack', 1, below)
                = SubSeq(wordCandidatesStack, 1, below)
           /\ Len(wordCandidatesStack') > below =>
                FixChildrenAboveRemainder(parent, wordCandidatesStack', below)]_vars

\* The remainder of the first partition waits at the bottom of the stack
\* while a child above it, or one of its descendants, has given a solution.
RemainderWaits ==
  /\ pc = "while"
  /\ Len(solutions) >= 1
  /\ Len(wordCandidatesStack) >= 1
  /\ LET root == pruneWordCandidates(
                   findWordCandidates(parseWords(ciphertext, dictionary.alphabet),
                                      dictionary),
                   dictionary)
     IN  /\ root # <<>>
         /\ Len(MultiCandidateWords(root)) >= 2
         /\ FinalChild(root, wordCandidatesStack[1])

(***************************************************************************)
(* C22  Candidate sets only shrink.                                        *)
(***************************************************************************)
\* WC0: the word candidates the search begins with (lines 54-56).
InitialWordCandidates ==
  findWordCandidates(parseWords(ciphertext, dictionary.alphabet), dictionary)

\* Every word candidates on the stack has the words of WC0, each with
\* candidates of WC0 only.
WithinInitialWordCandidates ==
  \A k \in DOMAIN wordCandidatesStack :
    Within(wordCandidatesStack[k], InitialWordCandidates)

\* What a pass of the loop pushes has the words of the word candidates it
\* popped, each with candidates of the popped set only, and so has the
\* pruned copy it was partitioned from.
DerivedByRemoval ==
  (pc = "loop" /\ pc' = "while") =>
    LET popped == wordCandidatesStack[Len(wordCandidatesStack)]
        pruned == pruneWordCandidates(popped, dictionary)
    IN  /\ pruned # <<>> => Within(pruned, popped)
        /\ \A k \in Len(wordCandidatesStack)..Len(wordCandidatesStack') :
             /\ Within(wordCandidatesStack'[k], popped)
             /\ Within(wordCandidatesStack'[k], pruned)

\* C22: every word candidates ever on the stack has the ciphertext words of
\* WC0, and for each word its candidate set is a subset of the set the word
\* has in the word candidates it was derived from, hence of the set in WC0:
\* prune and partition never add a candidate.
CandidatesOnlyShrink ==
  /\ [](WithinInitialWordCandidates)
  /\ [][DerivedByRemoval]_vars

\* The top of the stack has lost candidates of every word of WC0.
EveryWordShrunk ==
  /\ pc = "while"
  /\ Len(wordCandidatesStack) >= 1
  /\ LET top == wordCandidatesStack[Len(wordCandidatesStack)]
     IN  /\ Within(top, InitialWordCandidates)
         /\ \A i \in DOMAIN top :
              Range(top[i].candidateWords)
                # Range(InitialWordCandidates[i].candidateWords)

(***************************************************************************)
(* C23  Non-emptiness.                                                     *)
(***************************************************************************)
\* Every word has a candidate.
NonEmpty(wordCandidates) ==
  \A i \in DOMAIN wordCandidates : wordCandidates[i].candidateWords # <<>>

\* A pass of the loop body that was not stopped by the time check: word
\* candidates that survive pruning have a candidate for every word and so
\* has every child pushed from them; word candidates with an empty set, or
\* that pruning leaves with one, are dropped: nothing is pushed and no
\* solution is recorded.
PassKeepsNonEmpty ==
  (pc = "loop" /\ pc' \in {"while", "threw"}) =>
    LET below == Len(wordCandidatesStack) - 1
        popped == wordCandidatesStack[Len(wordCandidatesStack)]
        pruned == pruneWordCandidates(popped, dictionary)
    IN  /\ pruned # <<>> =>
             /\ NonEmpty(pruned)
             /\ \A k \in (below + 1)..Len(wordCandidatesStack') :
                  NonEmpty(wordCandidatesStack'[k])
        /\ ~NonEmpty(popped) => pruned = <<>>
        /\ pruned = <<>> =>
             /\ wordCandidatesStack' = SubSeq(wordCandidatesStack, 1, below)
             /\ solutions' = solutions

\* Only WC0, which is pushed before any pruning, is on the stack with a word
\* without candidates, until a pass pops it.
StackNonEmptySets ==
  \A k \in DOMAIN wordCandidatesStack :
    \/ NonEmpty(wordCandidatesStack[k])
    \/ /\ Len(wordCandidatesStack) = 1
       /\ solutions = <<>>
       /\ wordCandidatesStack[k] = InitialWordCandidates

\* C23: word candidates that survive pruning, and every child the
\* partitioner emits from them, the remainder included, have a candidate set
\* that is not empty for every ciphertext word; word candidates with an
\* empty set are discarded, never partitioned and never made a solution.
NonEmptiness ==
  /\ [](StackNonEmptySets)
  /\ [][PassKeepsNonEmpty]_vars

\* Children are on the stack, each with candidates for every word, and
\* pruning will discard one of them.
InfeasibleChildPushed ==
  /\ pc = "while"
  /\ Len(wordCandidatesStack) >= 2
  /\ \A k \in DOMAIN wordCandidatesStack : NonEmpty(wordCandidatesStack[k])
  /\ \E k \in DOMAIN wordCandidatesStack :
       pruneWordCandidates(wordCandidatesStack[k], dictionary) = <<>>

(***************************************************************************)
(* C24  Strict pigeonhole violation.                                       *)
(***************************************************************************)
\* The letters of the ciphertext words of word candidates.
LettersOf(wordCandidates) ==
  UNION {Range(wordCandidates[i].word) : i \in DOMAIN wordCandidates}

\* More letters of the ciphertext share a domain than the domain has
\* elements.
StrictViolation(letterCandidates, letters) ==
  \E shared \in {letterCandidates[l] : l \in letters} :
    Cardinality({l \in letters : letterCandidates[l] = shared})
      > Cardinality(shared)

\* The pass of the search loop on these word candidates alone drops them:
\* nothing is pushed, nothing is recorded and nothing is thrown.
Discarded(wordCandidates) ==
  /\ pruneWordCandidates(wordCandidates, dictionary) = <<>>
  /\ loopBody(<<wordCandidates>>, <<>>, ciphertext, dictionary)
       = [stack |-> <<>>, solutions |-> <<>>, error |-> ""]

\* C24: when, at a pass of the loop of computeLetterCandidates, more
\* ciphertext letters share an identical domain than the domain has
\* elements, computeLetterCandidates still runs to its end, the pruning of
\* the word candidates returns undefined, and the search drops the word
\* candidates without partitioning them.
StrictViolationDiscarded ==
  /\ [](StrictViolation(pigeonhole.letterCandidates,
                        LettersOf(pigeonhole.wordCandidates))
          => Discarded(pigeonhole.wordCandidates))
  /\ [](Converged)
  /\ (pc = "pigeonhole") ~> (pc = "converged")

\* Three ciphertext letters shared a domain of two letters, and the loop has
\* ended with no candidate left for them.
ThreeLettersTwoCandidates ==
  /\ pc = "converged"
  /\ LET initial == initialLetterCandidates(pigeonhole.wordCandidates, dictionary)
     IN  \E shared \in Range(initial) :
           /\ Cardinality(shared) = 2
           /\ Cardinality({l \in LettersOf(pigeonhole.wordCandidates) :
                             initial[l] = shared}) = 3
           /\ \A l \in LettersOf(pigeonhole.wordCandidates) :
                initial[l] = shared => pigeonhole.letterCandidates[l] = {}

(***************************************************************************)
(* C25  Pigeonhole closure.                                                *)
(***************************************************************************)
\* The letters that have the domain `shared`.
Sharing(letterCandidates, shared) ==
  {l \in DOMAIN letterCandidates : letterCandidates[l] = shared}

\* Whenever n letters share a domain of exactly n letters, no other letter
\* has one of the n in its domain.
Closed(letterCandidates) ==
  \A shared \in Range(letterCandidates) :
    Cardinality(Sharing(letterCandidates, shared)) = Cardinality(shared) =>
      \A other \in DOMAIN letterCandidates \ Sharing(letterCandidates, shared) :
        letterCandidates[other] \cap shared = {}

\* C25: in the letter candidates computeLetterCandidates returns, for the
\* word candidates the search prunes, whenever n letters share an identical
\* domain of exactly n plaintext letters, those letters have that domain and
\* the domain of every other letter contains none of the n letters.
PigeonholeClosure ==
  \A k \in DOMAIN wordCandidatesStack :
    Closed(computeLetterCandidates(wordCandidatesStack[k], dictionary))

\* Two letters share a domain of two letters in the letter candidates of the
\* top of the stack, and another letter has lost one of the two to them.
PairClaimed ==
  /\ pc = "loop"
  /\ Len(wordCandidatesStack) >= 1
  /\ LET top == wordCandidatesStack[Len(wordCandidatesStack)]
         before == initialLetterCandidates(top, dictionary)
         returned == computeLetterCandidates(top, dictionary)
     IN  \E shared \in Range(returned) :
           /\ Cardinality(shared) = 2
           /\ Cardinality(Sharing(returned, shared)) = 2
           /\ \E other \in DOMAIN returned \ Sharing(returned, shared) :
                /\ before[other] \cap shared # {}
                /\ returned[other] \cap shared = {}
                /\ returned[other] # {}

(***************************************************************************)
(* C26  Word pruning.                                                      *)
(***************************************************************************)
\* C' of the specification: the candidates of the i-th word whose every
\* letter is a candidate of the ciphertext letter at its position.
FilteredCandidates(wordCandidates, letterCandidates, i) ==
  {c \in Range(wordCandidates[i].candidateWords) :
     \A p \in DOMAIN wordCandidates[i].word :
       c[p] \in letterCandidates[wordCandidates[i].word[p]]}

\* pruneWordCandidates returns the filtered sets, or undefined exactly when
\* one of them is empty.
PrunedAsFiltered(wordCandidates) ==
  LET letterCandidates == computeLetterCandidates(wordCandidates, dictionary)
      pruned == pruneWordCandidates(wordCandidates, dictionary)
      infeasible == \E i \in DOMAIN wordCandidates :
                      FilteredCandidates(wordCandidates, letterCandidates, i) = {}
  IN  /\ pruned = <<>> <=> infeasible
      /\ pruned # <<>> =>
           /\ SameWords(wordCandidates, pruned)
           /\ \A i \in DOMAIN wordCandidates :
                /\ Range(pruned[i].candidateWords)
                     = FilteredCandidates(wordCandidates, letterCandidates, i)
                /\ Len(pruned[i].candidateWords)
                     = Cardinality(Range(pruned[i].candidateWords))

\* C26: for the word candidates the search prunes and the letter candidates
\* derived from them, pruneWordCandidates returns for each word w exactly
\* the candidates c of w with c[i] in LC(w[i]) at every position i, and
\* returns undefined if and only if one of these filtered sets is empty.
WordPruning ==
  \A k \in DOMAIN wordCandidatesStack : PrunedAsFiltered(wordCandidatesStack[k])

\* The top of the stack is a child that fixes a word, and pruning leaves it
\* feasible with fewer candidates for another word.
PruningRemoves ==
  /\ pc = "loop"
  /\ Len(wordCandidatesStack) >= 2
  /\ LET top == wordCandidatesStack[Len(wordCandidatesStack)]
         pruned == pruneWordCandidates(top, dictionary)
     IN  /\ pruned # <<>>
         /\ \E i, j \in DOMAIN top :
              /\ i # j
              /\ Len(top[i].candidateWords) = 1
              /\ Len(pruned[j].candidateWords) < Len(top[j].candidateWords)

(***************************************************************************)
(* C27  The fallback paths run only after a search without solutions.      *)
(***************************************************************************)
\* The call is in a fallback function, or has returned what one found.
InFallback ==
  \/ pc \in {"brute", "frequency", "celebrity", "permutations"}
  \/ Returned /\ source \in {"bruteForce", "frequency", "celebrity"}

\* The search loop of lines 57-107 has run in this call.
SearchHasRun == Len(parseWords(ciphertext, dictionary.alphabet)) >= 2

\* C27: the brute force, the frequency analysis and the celebrity-quote
\* analysis are entered only after the main search has run and returned no
\* solutions; when the main search records a solution, or could have
\* recorded one because a consistent cipher exists, no fallback is entered
\* and no fallback result is returned.
FallbackOnlyAfterSearch ==
  InFallback =>
    /\ SearchHasRun
    /\ ConsistentPlaintexts(ciphertext, dictionary) = {}

(***************************************************************************)
(* C30  The driver never pops an empty stack.                              *)
(***************************************************************************)
\* C30: whenever the search loop is at the top of its body, where the pop
\* of line 64 follows the time check, the stack holds at least one word
\* candidates, for every ciphertext of two or more words, every
\* maxSolutionCount and every timeout.
NeverPopsEmptyStack ==
  pc = "loop" => Len(wordCandidatesStack) >= 1

\* The loop is at the top of its body again, after passes that recorded a
\* solution, and the condition has found the stack not empty.
PopAfterSolution ==
  /\ pc = "loop"
  /\ Len(solutions) >= 1
  /\ Len(wordCandidatesStack) >= 1
  /\ wordCandidatesStack[Len(wordCandidatesStack)] # InitialWordCandidates

(***************************************************************************)
(* C28  The dictionary is read-only during a solve.                        *)
(***************************************************************************)
\* The Sets of the dictionary have the content they had before the call:
\* the alphabet, and the Set of every pattern.  No Set is added to them.
DictionarySetsUnchanged ==
  /\ heap.letterSets = <<dictionary.alphabet>>
  /\ \A p \in DOMAIN patternsOf(dictionary) :
       heap.wordSets[p] = patternWords(dictionary, patternsOf(dictionary)[p])

\* C28: although WC0 holds the dictionary's own pattern_words Sets, no step
\* of the search (the letter candidates, the pigeonhole deletions, the
\* pruning, the partitioning) adds to or removes from the alphabet or a
\* pattern_words Set of the dictionary: they are at every step what they
\* were before the call.
DictionaryReadOnly ==
  pc \in {"heapLoop", "heapPartition", "heapDone", "threw"} =>
    DictionarySetsUnchanged

\* The search has ended after a pass deleted the first candidate from a copy
\* of a Set of the dictionary, which WC0 held itself.
DeletedFromCopy ==
  /\ pc = "heapDone"
  /\ \E p \in DOMAIN patternsOf(dictionary) :
       /\ Len(heap.wordSets[p]) >= 2
       /\ \E id \in DOMAIN heap.wordSets :
            /\ id > Len(patternsOf(dictionary))
            /\ heap.wordSets[id] = Tail(heap.wordSets[p])

(***************************************************************************)
(* C29  Each child fully owns its word candidates.                         *)
(***************************************************************************)
\* The Maps that are not being built: those on the stack, the children
\* already pushed to partitionedWordCandidates, and the argument of the
\* running partitionWordCandidates.
HeldMaps ==
  Range(heap.stack) \cup Range(heap.partitioned)
    \cup (IF heap.input = <<>> THEN {} ELSE {heap.input})

\* A step leaves every word of every held Map with the candidates it has.
HeldMapsKeepCandidates ==
  \A map \in HeldMaps : View(heap'.wordSets, map) = View(heap.wordSets, map)

\* C29: the partitioner leaves its input unchanged, and neither the removal
\* of a candidate while a later child is built, nor a later pruning or
\* partitioning of any word candidates, changes a candidate set of another
\* word candidates already emitted or still on the stack.
ChildrenOwnTheirSets ==
  [][HeldMapsKeepCandidates]_vars

\* The partitioner has removed a candidate for its second child after it
\* emitted the first, and its input and its children hold no Set of
\* remainingWordCandidates.
SecondChildBuilt ==
  /\ pc = "heapPartition"
  /\ Len(heap.partitioned) >= 2
  /\ heap.input # <<>>
  /\ \A held \in HeldMaps :
       {held[i].set : i \in DOMAIN held}
         \cap {heap.remaining[i].set : i \in DOMAIN heap.remaining} = {}

=============================================================================
